---- MODULE Spec2Model ----
(***************************************************************************)
(* Model of the Jamper chat client (src/public/app.js): the SSE decoder    *)
(* consumeSSE, the merge functions applyPerplexityChunk and                *)
(* applyPerplexityFinal, the exchange life cycle of sendPrompt,            *)
(* runChatCompletion and runDeepResearchAsync with the shared              *)
(* abortController slot, the settings and buildPayload; and of the proxy   *)
(* (src/server.js).                                                        *)
(*                                                                         *)
(* Text is modelled by TLA+ strings, one character per byte or UTF-16 code *)
(* unit.  An absent JavaScript property (undefined) is the empty sequence  *)
(* << >>, a present one the one-element sequence << v >>.  JSON values the *)
(* code only copies (citation lists, usage objects, ...) are kept as their *)
(* JSON text.                                                              *)
(***************************************************************************)
EXTENDS Integers, Sequences, FiniteSets, TLC

VARIABLES
    \* ---- one consumeSSE call on one response body (SpecSSE) ----
    s_script,     \* the raw events the response body is made of
    s_stream,     \* the raw bytes of the response body
    s_pos,        \* number of bytes the reader has handed out so far
    s_cuts,       \* the value of s_pos after each read that returned a chunk
    s_dec,        \* TextDecoder state: TRUE when a lead byte is pending
    s_buffer,     \* consumeSSE's `buffer`
    s_msg,        \* the assistant message the onChunk callback merges into
    s_delivered,  \* the objects handed to onChunk, in call order
    s_pc          \* "read" (awaiting reader.read), "returned" ([DONE] seen),
                  \* "ended" (the stream ended)

VARIABLES
    \* ---- a sequence of merges into one accumulator (SpecMerge) ----
    m_msg,        \* the accumulator
    m_before,     \* the accumulator before the last merge
    m_kind,       \* the last merge: "none", "chunk", "final", "chunk_again",
                  \* "final_again" (the same input merged once more)
    m_chunk,      \* the event object of the last applyPerplexityChunk call
    m_final,      \* the response object of the last applyPerplexityFinal call
    m_n           \* number of merges so far

VARIABLES
    \* ---- the exchanges of one thread (Spec) ----
    abortController,  \* the shared slot: 0 (null) or the exchange whose
                      \* AbortController it holds
    aborted,          \* aborted[e]: signal.aborted of the controller of e
    messages,         \* thread.messages
    created,          \* created[i]: the exchange that pushed messages[i]
                      \* (0 for a user message)
    wlog,             \* the writes made so far: << exchange, index >>
    ex,               \* the exchanges started: position and locals of each
    nEx,              \* number of exchanges started
    status,           \* the status pill: << kind, text >>
    stopBtn           \* whether the Stop button is shown

VARIABLES
    \* ---- the settings and the request payload (SpecPayload) ----
    settings,     \* state.settings
    stored,       \* the settings item of localStorage: << >> or << document >>
    b_thread,     \* thread.messages of the active thread
    b_user,       \* the user message of the last sendPrompt call
    payload,      \* the payload the last sendPrompt call built: << >> when
                  \* the settings or the thread changed since
    b_n,          \* number of sendPrompt calls so far
    b_pc          \* "boot" (loadPersisted not yet run) or "ready"

VARIABLES
    \* ---- one request at a time through the proxy (SpecProxy) ----
    req,          \* the request being handled
    res,          \* the response as built and sent so far
    calls,        \* the upstream calls made for the request
    upstream,     \* the upstream response: << >> or << response >>
    x_pc          \* the position of the handler: "idle", "fetch", "text",
                  \* "pipe", "buffer", "sent", "crashed"

sseVars == << s_script, s_stream, s_pos, s_cuts, s_dec, s_buffer, s_msg, s_delivered, s_pc >>

mergeVars == << m_msg, m_before, m_kind, m_chunk, m_final, m_n >>

exVars == << abortController, aborted, messages, created, wlog, ex, nEx, status,
            stopBtn >>

payVars == << settings, stored, b_thread, b_user, payload, b_n, b_pc >>

proxyVars == << req, res, calls, upstream, x_pc >>

\* The parts only their own specification moves.
restVars == << payVars, proxyVars >>

vars == << sseVars, mergeVars, exVars, payVars, proxyVars >>

-----------------------------------------------------------------------------
(* Bounds *)

\* Largest number of blank-line-terminated raw events in a response body.
MaxEvents == 2

\* Largest number of merges into one accumulator.
MaxMerges == 2

\* Largest number of exchanges (sendPrompt calls that start one) where
\* exchanges overlap (Spec).
MaxExchanges == 3

\* Largest number of exchanges where every response of the server is
\* considered (SpecOne).
MaxRichExchanges == 1

\* Largest number of status fetches of one async job.
MaxPolls == 3

\* Largest number of prompts sent where the payload is built (SpecPayload).
MaxSends == 2

-----------------------------------------------------------------------------
(* JavaScript string helpers *)

\* Math.max, Math.min
MathMax(a, b) == IF a > b THEN a ELSE b
MathMin(a, b) == IF a < b THEN a ELSE b

\* String.prototype.startsWith
StartsWith(s, p) == Len(s) >= Len(p) /\ SubSeq(s, 1, Len(p)) = p

\* String.prototype.slice(n) for 0 <= n
Slice(s, n) == SubSeq(s, n + 1, Len(s))

\* The white space String.prototype.trim removes (the part of it that occurs
\* in the model's texts).
WhiteSpace == {" ", "\t", "\r", "\n"}

RECURSIVE TrimStart(_)
TrimStart(s) ==
    IF Len(s) > 0 /\ SubSeq(s, 1, 1) \in WhiteSpace
    THEN TrimStart(SubSeq(s, 2, Len(s)))
    ELSE s

RECURSIVE TrimEnd(_)
TrimEnd(s) ==
    IF Len(s) > 0 /\ SubSeq(s, Len(s), Len(s)) \in WhiteSpace
    THEN TrimEnd(SubSeq(s, 1, Len(s) - 1))
    ELSE s

\* String.prototype.trim
Trim(s) == TrimEnd(TrimStart(s))

\* Index of the first occurrence of sep in s at or after position from,
\* 0 when there is none.
IndexOf(s, sep, from) ==
    LET hits == {i \in from..(Len(s) - Len(sep) + 1) :
                    SubSeq(s, i, i + Len(sep) - 1) = sep}
    IN  IF hits = {} THEN 0
        ELSE CHOOSE i \in hits : \A j \in hits : i <= j

\* String.prototype.split(/sep/) for a literal, non-empty separator: the
\* pieces between the leftmost non-overlapping matches; "" splits to << "" >>.
RECURSIVE Split(_, _)
Split(s, sep) ==
    LET i == IndexOf(s, sep, 1)
    IN  IF i = 0 THEN << s >>
        ELSE << SubSeq(s, 1, i - 1) >> \o Split(SubSeq(s, i + Len(sep), Len(s)), sep)

\* Array.prototype.filter(Boolean) on strings: drops the empty ones.
RECURSIVE FilterNonEmpty(_)
FilterNonEmpty(ss) ==
    IF ss = << >> THEN << >>
    ELSE IF Head(ss) = "" THEN FilterNonEmpty(Tail(ss))
    ELSE << Head(ss) >> \o FilterNonEmpty(Tail(ss))

\* Array.prototype.map((l) => l.trim())
MapTrim(ss) == [i \in 1..Len(ss) |-> Trim(ss[i])]

-----------------------------------------------------------------------------
(* TextDecoder('utf-8') with { stream: true }                               *)
(*                                                                          *)
(* The body is a byte string.  Every byte below 0x80 is written as its own  *)
(* character.  LeadByte and ContByte stand for the two bytes 0xC3 0xA9 of   *)
(* one two-byte character, which decodes to TwoByteChar; an ill-formed      *)
(* sequence decodes to Replacement (U+FFFD).  With stream: true a lead byte *)
(* at the end of a chunk is kept for the next call.                         *)

LeadByte == "#"
ContByte == "%"
TwoByteChar == "@"
Replacement == "?"

\* The concatenation of the strings f[lo], ..., f[hi].
RECURSIVE Concat(_, _, _)
Concat(f, lo, hi) ==
    IF lo > hi THEN ""
    ELSE IF lo = hi THEN f[lo]
    ELSE LET mid == (lo + hi) \div 2
         IN  Concat(f, lo, mid) \o Concat(f, mid + 1, hi)

\* What the decoder emits when it takes byte i of bytes: a continuation byte
\* completes a pending lead byte or is ill-formed; any other byte after a
\* pending lead byte makes that lead byte ill-formed; a lead byte is held back.
DecodePiece(pending, bytes, i) ==
    LET b == SubSeq(bytes, i, i)
        afterLead == IF i = 1 THEN pending ELSE SubSeq(bytes, i - 1, i - 1) = LeadByte
    IN  IF b = ContByte
        THEN IF afterLead THEN TwoByteChar ELSE Replacement
        ELSE (IF afterLead THEN Replacement ELSE "")
                 \o (IF b = LeadByte THEN "" ELSE b)

DecodeFrom(pending, bytes) ==
    [text |-> Concat([i \in 1..Len(bytes) |-> DecodePiece(pending, bytes, i)],
                     1, Len(bytes)),
     pending |-> IF bytes = "" THEN pending
                 ELSE SubSeq(bytes, Len(bytes), Len(bytes)) = LeadByte]

\* decoder.decode(value) without stream: true: the pending lead byte of a
\* chunk is flushed as U+FFFD and nothing is carried over.
DecodeFlush(pending, value) ==
    LET r == DecodeFrom(FALSE, value)
    IN  [text |-> IF r.pending THEN r.text \o Replacement ELSE r.text,
         pending |-> FALSE]

\* decoder.decode(value, { stream: true })
Decode(pending, value) == DecodeFrom(pending, value)

-----------------------------------------------------------------------------
(* JSON values and the objects of the wire protocol *)

Absent == << >>

\* JSON texts of falsy values: `if (x)` is false for them.
FalsyJson == {"null", "false", "0", "\"\""}

\* Truthiness of an optional, copied-only JSON value.
Truthy(opt) == opt # Absent /\ opt[1] \notin FalsyJson

\* Truthiness of an optional string: undefined, null and "" are falsy.
TruthyStr(opt) == opt # Absent /\ opt[1] # ""

SideFields == {"citations", "search_results", "usage", "reasoning_steps",
               "images", "videos", "related_questions"}

\* A streaming event object with no property the merge reads.
NoChunk == [delta_content |-> Absent, delta_reasoning_steps |-> Absent,
            citations |-> Absent, search_results |-> Absent, usage |-> Absent,
            reasoning_steps |-> Absent, images |-> Absent, videos |-> Absent,
            related_questions |-> Absent]

\* A chat-completion response object with no property the merge reads.
NoFinal == [content |-> Absent,
            citations |-> Absent, search_results |-> Absent, usage |-> Absent,
            reasoning_steps |-> Absent, images |-> Absent, videos |-> Absent,
            related_questions |-> Absent]

\* The JSON documents of the model and what JSON.parse returns for each:
\* truthy tells whether the value passes `if (obj)`, obj is the value as the
\* merge sees it.  Every other text of the model is not valid JSON.
JsonDocs ==
    { [text |-> "{\"choices\":[{\"delta\":{\"content\":\"Hi\"}}]}",
       truthy |-> TRUE, obj |-> [NoChunk EXCEPT !.delta_content = << "Hi" >>]],
      [text |-> "{\"choices\":[{\"delta\":{\"content\":\"@\"}}]}",
       truthy |-> TRUE, obj |-> [NoChunk EXCEPT !.delta_content = << "@" >>]],
      [text |-> "{\"citations\":[\"u\"]}",
       truthy |-> TRUE, obj |-> [NoChunk EXCEPT !.citations = << "[\"u\"]" >>]],
      [text |-> "{\"usage\":{\"t\":1}}",
       truthy |-> TRUE, obj |-> [NoChunk EXCEPT !.usage = << "{\"t\":1}" >>]],
      [text |-> "null", truthy |-> FALSE, obj |-> NoChunk] }

\* safeJsonParse: JSON.parse, null when it throws.
ParseNull == [truthy |-> FALSE, obj |-> NoChunk]

safeJsonParse(text) ==
    IF \E d \in JsonDocs : d.text = text
    THEN LET d == CHOOSE d \in JsonDocs : d.text = text
         IN  [truthy |-> d.truthy, obj |-> d.obj]
    ELSE ParseNull

-----------------------------------------------------------------------------
(* The result accumulator and the merge functions *)

\* The assistant message sendPrompt creates: empty content, empty metadata;
\* meta.async is not set (Absent) until the async path writes it.
NewAssistantMsg ==
    [role |-> "assistant",
     content |-> "",
     meta |-> [citations |-> "[]", search_results |-> "[]", usage |-> "{}",
               reasoning_steps |-> "[]", images |-> "[]", videos |-> "[]",
               related_questions |-> "[]", async |-> Absent]]

\* `if (x) target = x`: the value of x when it is truthy, else the old value.
IfTruthy(opt, old) == IF Truthy(opt) THEN opt[1] ELSE old

\* A wrong merge: the delta is put in front of the content.
applyPerplexityChunkPrepend(msg, chunk) ==
    [msg EXCEPT
       !.content = IF TruthyStr(chunk.delta_content)
                   THEN chunk.delta_content[1] \o @ ELSE @,
       !.meta.citations = IfTruthy(chunk.citations, @),
       !.meta.search_results = IfTruthy(chunk.search_results, @),
       !.meta.usage = IfTruthy(chunk.usage, @),
       !.meta.reasoning_steps =
           IfTruthy(chunk.delta_reasoning_steps, IfTruthy(chunk.reasoning_steps, @)),
       !.meta.images = IfTruthy(chunk.images, @),
       !.meta.videos = IfTruthy(chunk.videos, @),
       !.meta.related_questions = IfTruthy(chunk.related_questions, @)]

\* A wrong merge: a side-channel list is appended to the old one.
applyPerplexityChunkAppendMeta(msg, chunk) ==
    [msg EXCEPT
       !.content = IF TruthyStr(chunk.delta_content)
                   THEN @ \o chunk.delta_content[1] ELSE @,
       !.meta.citations = IF Truthy(chunk.citations) THEN @ \o chunk.citations[1] ELSE @,
       !.meta.search_results = IfTruthy(chunk.search_results, @),
       !.meta.usage = IfTruthy(chunk.usage, @),
       !.meta.reasoning_steps =
           IfTruthy(chunk.delta_reasoning_steps, IfTruthy(chunk.reasoning_steps, @)),
       !.meta.images = IfTruthy(chunk.images, @),
       !.meta.videos = IfTruthy(chunk.videos, @),
       !.meta.related_questions = IfTruthy(chunk.related_questions, @)]

\* applyPerplexityChunk(msg, chunk): the delta is appended to the content;
\* each truthy side-channel property replaces the metadata field, and a truthy
\* delta.reasoning_steps, assigned last, wins over chunk.reasoning_steps.
applyPerplexityChunk(msg, chunk) ==
    [msg EXCEPT
       !.content = IF TruthyStr(chunk.delta_content)
                   THEN @ \o chunk.delta_content[1] ELSE @,
       !.meta.citations = IfTruthy(chunk.citations, @),
       !.meta.search_results = IfTruthy(chunk.search_results, @),
       !.meta.usage = IfTruthy(chunk.usage, @),
       !.meta.reasoning_steps =
           IfTruthy(chunk.delta_reasoning_steps, IfTruthy(chunk.reasoning_steps, @)),
       !.meta.images = IfTruthy(chunk.images, @),
       !.meta.videos = IfTruthy(chunk.videos, @),
       !.meta.related_questions = IfTruthy(chunk.related_questions, @)]

\* A wrong final merge: the content is appended, as for a delta.
applyPerplexityFinalAppend(msg, data) ==
    [msg EXCEPT
       !.content = IF data.content # Absent THEN @ \o data.content[1] ELSE @,
       !.meta.citations = IfTruthy(data.citations, @),
       !.meta.search_results = IfTruthy(data.search_results, @),
       !.meta.usage = IfTruthy(data.usage, @),
       !.meta.reasoning_steps = IfTruthy(data.reasoning_steps, @),
       !.meta.images = IfTruthy(data.images, @),
       !.meta.videos = IfTruthy(data.videos, @),
       !.meta.related_questions = IfTruthy(data.related_questions, @)]

\* applyPerplexityFinal(msg, data): a content that is not null/undefined
\* replaces the content; each truthy side-channel property replaces its field.
applyPerplexityFinal(msg, data) ==
    [msg EXCEPT
       !.content = IF data.content # Absent THEN data.content[1] ELSE @,
       !.meta.citations = IfTruthy(data.citations, @),
       !.meta.search_results = IfTruthy(data.search_results, @),
       !.meta.usage = IfTruthy(data.usage, @),
       !.meta.reasoning_steps = IfTruthy(data.reasoning_steps, @),
       !.meta.images = IfTruthy(data.images, @),
       !.meta.videos = IfTruthy(data.videos, @),
       !.meta.related_questions = IfTruthy(data.related_questions, @)]

\* The onChunk callback of runChatCompletion applied to each object of objs
\* in order.
RECURSIVE MergeAll(_, _)
MergeAll(msg, objs) ==
    IF objs = << >> THEN msg
    ELSE MergeAll(applyPerplexityChunk(msg, Head(objs)), Tail(objs))

-----------------------------------------------------------------------------
(* consumeSSE *)

\* A wrong inner loop: the [DONE] sentinel is treated like any other payload
\* (it is not JSON, so it is skipped) and decoding goes on.
RECURSIVE ScanLinesNoSentinel(_, _)
ScanLinesNoSentinel(lines, out) ==
    IF lines = << >> THEN [out |-> out, returned |-> FALSE]
    ELSE LET line == Head(lines)
             data == Trim(Slice(line, 5))
             parsed == safeJsonParse(data)
         IN  IF ~StartsWith(line, "data:") THEN ScanLinesNoSentinel(Tail(lines), out)
             ELSE IF data = "" THEN ScanLinesNoSentinel(Tail(lines), out)
             ELSE IF parsed.truthy
                  THEN ScanLinesNoSentinel(Tail(lines), out \o << parsed.obj >>)
                  ELSE ScanLinesNoSentinel(Tail(lines), out)

\* A wrong scanner: a data line that is not JSON ends the call.
RECURSIVE ScanLinesStrict(_, _)
ScanLinesStrict(lines, out) ==
    IF lines = << >> THEN [out |-> out, returned |-> FALSE]
    ELSE LET line == Head(lines)
             data == Trim(Slice(line, 5))
             parsed == safeJsonParse(data)
         IN  IF ~StartsWith(line, "data:") THEN ScanLinesStrict(Tail(lines), out)
             ELSE IF data = "" THEN ScanLinesStrict(Tail(lines), out)
             ELSE IF data = "[DONE]" THEN [out |-> out, returned |-> TRUE]
             ELSE IF parsed.truthy
                  THEN ScanLinesStrict(Tail(lines), out \o << parsed.obj >>)
                  ELSE [out |-> out, returned |-> TRUE]

\* The inner loop over the lines of one raw event: the objects handed to
\* onChunk, and whether the [DONE] sentinel made the function return.
RECURSIVE ScanLines(_, _)
ScanLines(lines, out) ==
    IF lines = << >> THEN [out |-> out, returned |-> FALSE]
    ELSE LET line == Head(lines)
             data == Trim(Slice(line, 5))
             parsed == safeJsonParse(data)
         IN  IF ~StartsWith(line, "data:") THEN ScanLines(Tail(lines), out)
             ELSE IF data = "" THEN ScanLines(Tail(lines), out)
             ELSE IF data = "[DONE]" THEN [out |-> out, returned |-> TRUE]
             ELSE IF parsed.truthy
                  THEN ScanLines(Tail(lines), out \o << parsed.obj >>)
                  ELSE ScanLines(Tail(lines), out)

\* The lines of one raw event: split on newline, trimmed, empty ones dropped.
EventLines(evt) == FilterNonEmpty(MapTrim(Split(evt, "\n")))

\* The outer loop over the raw events of one chunk.
RECURSIVE ScanEvents(_, _)
ScanEvents(events, out) ==
    IF events = << >> THEN [out |-> out, returned |-> FALSE]
    ELSE LET r == ScanLines(EventLines(Head(events)), out)
         IN  IF r.returned THEN r ELSE ScanEvents(Tail(events), r.out)

\* A wrong body: the buffer is recomputed per chunk, the text retained from
\* the previous read is lost.
ProcessChunkNoCarry(dec, buffer, value) ==
    LET d == Decode(dec, value)
        pieces == Split(d.text, "\n\n")
        r == ScanEvents(SubSeq(pieces, 1, Len(pieces) - 1), << >>)
    IN  [dec |-> d.pending, buffer |-> pieces[Len(pieces)],
         out |-> r.out, returned |-> r.returned]

\* One iteration of the while loop after reader.read() returned the chunk
\* `value`: decode, append to the buffer, split on the blank line, keep the
\* last piece as the new buffer, and scan the other pieces.
ProcessChunk(dec, buffer, value) ==
    LET d == Decode(dec, value)
        pieces == Split(buffer \o d.text, "\n\n")
        r == ScanEvents(SubSeq(pieces, 1, Len(pieces) - 1), << >>)
    IN  [dec |-> d.pending, buffer |-> pieces[Len(pieces)],
         out |-> r.out, returned |-> r.returned]

-----------------------------------------------------------------------------
(* Response bodies *)

\* The raw events a body is made of: the bytes between two blank-line
\* separators, with the objects a correct decoder delivers for them (objs)
\* and whether they hold the [DONE] sentinel (done).
HiChunk == [NoChunk EXCEPT !.delta_content = << "Hi" >>]
AccentChunk == [NoChunk EXCEPT !.delta_content = << "@" >>]
CitationsChunk == [NoChunk EXCEPT !.citations = << "[\"u\"]" >>]
UsageChunk == [NoChunk EXCEPT !.usage = << "{\"t\":1}" >>]

RawEvents ==
    << [bytes |-> "data: {\"choices\":[{\"delta\":{\"content\":\"Hi\"}}]}",
        objs |-> << HiChunk >>, done |-> FALSE],
       [bytes |-> "data: {\"choices\":[{\"delta\":{\"content\":\"#%\"}}]}",
        objs |-> << AccentChunk >>, done |-> FALSE],
       [bytes |-> "data: {\"citations\":[\"u\"]}",
        objs |-> << CitationsChunk >>, done |-> FALSE],
       [bytes |-> "data: [DONE]",
        objs |-> << >>, done |-> TRUE],
       [bytes |-> ": ping\ndata:{\"usage\":{\"t\":1}}\n  data: null \ndata:",
        objs |-> << UsageChunk >>, done |-> FALSE],
       [bytes |-> "data:{\"usage\":{\"t\":1}}\ndata: {\"choices\":\ndata: {\"citations\":[\"u\"]}",
        objs |-> << UsageChunk, CitationsChunk >>, done |-> FALSE],
       [bytes |-> "data: {\"citations\":[\"u\"]}\ndata: [DONE]\ndata: {\"usage\":{\"t\":1}}",
        objs |-> << CitationsChunk >>, done |-> TRUE] >>

\* Raw events that are one data line carrying one JSON object.
DataEvents == {1, 2, 3}

\* The scripts of a body: the raw events it holds, in order.  The last two
\* raw events of a body are any of the above, those before them data events.
Scripts ==
    UNION { { head \o last : head \in [1..(n - MathMin(n, 2)) -> DataEvents],
                             last \in [1..MathMin(n, 2) -> DOMAIN RawEvents] }
            : n \in 0..MaxEvents }

\* The bytes of a script: each raw event followed by the blank line.
RECURSIVE BodyOf(_)
BodyOf(script) ==
    IF script = << >> THEN ""
    ELSE RawEvents[Head(script)].bytes \o "\n\n" \o BodyOf(Tail(script))

\* What a correct decoder delivers for a script: the objects of the raw
\* events before the first sentinel, in order.
RECURSIVE Expected(_)
Expected(script) ==
    IF script = << >> THEN << >>
    ELSE IF RawEvents[Head(script)].done THEN RawEvents[Head(script)].objs
    ELSE RawEvents[Head(script)].objs \o Expected(Tail(script))

HasSentinel(script) == \E i \in DOMAIN script : RawEvents[script[i]].done

-----------------------------------------------------------------------------
(* One consumeSSE call, the body cut into two chunks at any offset *)

SSEStart ==
    /\ s_script \in Scripts
    /\ s_stream = BodyOf(s_script)
    /\ s_pos = 0
    /\ s_cuts = << >>
    /\ s_dec = FALSE
    /\ s_buffer = ""
    /\ s_msg = NewAssistantMsg
    /\ s_delivered = << >>
    /\ s_pc = "read"

\* reader.read() resolves with the next n bytes; the loop body runs.
SSEChunk(n) ==
    LET r == ProcessChunk(s_dec, s_buffer, SubSeq(s_stream, s_pos + 1, s_pos + n))
    IN  /\ s_pos' = s_pos + n
        /\ s_cuts' = Append(s_cuts, s_pos + n)
        /\ s_dec' = r.dec
        /\ s_buffer' = r.buffer
        /\ s_delivered' = s_delivered \o r.out
        /\ s_msg' = MergeAll(s_msg, r.out)
        /\ s_pc' = IF r.returned THEN "returned" ELSE "read"
        /\ UNCHANGED << s_script, s_stream >>
        /\ UNCHANGED << mergeVars, exVars, restVars >>

\* The first read returns any non-empty prefix of the body.
SSEReadFirst ==
    /\ s_pc = "read"
    /\ s_cuts = << >>
    /\ \E n \in 1..Len(s_stream) : SSEChunk(n)

\* The second read returns the rest of the body.
SSEReadRest ==
    /\ s_pc = "read"
    /\ Len(s_cuts) = 1
    /\ s_pos < Len(s_stream)
    /\ SSEChunk(Len(s_stream) - s_pos)

\* A wrong end: the text left in the buffer is scanned as a last raw event.
SSEReadDoneFlush ==
    /\ s_pc = "read"
    /\ s_pos = Len(s_stream)
    /\ s_pc' = "ended"
    /\ s_delivered' = s_delivered \o ScanEvents(<< s_buffer >>, << >>).out
    /\ s_msg' = MergeAll(s_msg, ScanEvents(<< s_buffer >>, << >>).out)
    /\ s_buffer' = ""
    /\ UNCHANGED << s_script, s_stream, s_pos, s_cuts, s_dec >>
    /\ UNCHANGED << mergeVars, exVars, restVars >>

\* reader.read() resolves with done: the loop breaks, the function returns.
SSEReadDone ==
    /\ s_pc = "read"
    /\ s_pos = Len(s_stream)
    /\ s_pc' = "ended"
    /\ UNCHANGED << s_script, s_stream, s_pos, s_cuts, s_dec, s_buffer, s_msg,
                    s_delivered >>
    /\ UNCHANGED << mergeVars, exVars, restVars >>

SSENext == SSEReadFirst \/ SSEReadRest \/ SSEReadDone

\* Bodies that end without the blank line after their last raw event: the
\* raw events are data events without a sentinel, and the body lacks its last
\* newline or its last two.
TailEvents == {1, 3, 6}
TailScripts == UNION { [1..n -> TailEvents] : n \in 1..MaxEvents }
Unterminated(script) ==
    { SubSeq(BodyOf(script), 1, Len(BodyOf(script)) - k) : k \in {1, 2} }

TailStart ==
    /\ s_script \in TailScripts
    /\ s_stream \in Unterminated(s_script)
    /\ s_pos = 0
    /\ s_cuts = << >>
    /\ s_dec = FALSE
    /\ s_buffer = ""
    /\ s_msg = NewAssistantMsg
    /\ s_delivered = << >>
    /\ s_pc = "read"

-----------------------------------------------------------------------------
(* A sequence of merges into one accumulator *)

\* The values of a side-channel property in the model: two different
\* lists and JSON null.
SideVals == {"[1]", "[2]", "null"}

\* The event objects merged: content deltas (one empty), every side-channel
\* property alone with every value, reasoning steps inside the delta (alone and
\* with top-level reasoning steps), and an event with everything.
FullChunk ==
    [delta_content |-> << "c" >>, delta_reasoning_steps |-> Absent,
     citations |-> << "[9]" >>, search_results |-> << "[8]" >>,
     usage |-> << "{\"t\":7}" >>, reasoning_steps |-> << "[6]" >>,
     images |-> << "[5]" >>, videos |-> << "[4]" >>,
     related_questions |-> << "[3]" >>]

ChunkInputs ==
    { [NoChunk EXCEPT !.delta_content = << c >>] : c \in {"a", "b", ""} }
    \cup { [NoChunk EXCEPT ![f] = << v >>] : f \in SideFields, v \in SideVals }
    \cup { [NoChunk EXCEPT !.delta_reasoning_steps = << "[3]" >>],
           [NoChunk EXCEPT !.delta_reasoning_steps = << "[3]" >>,
                           !.reasoning_steps = << "[1]" >>],
           [NoChunk EXCEPT !.delta_reasoning_steps = << "null" >>,
                           !.reasoning_steps = << "[1]" >>],
           FullChunk }

\* The response objects merged: a content alone (one empty), every
\* side-channel property alone with every value, nothing, and everything.
FullFinal ==
    [content |-> << "c" >>,
     citations |-> << "[9]" >>, search_results |-> << "[8]" >>,
     usage |-> << "{\"t\":7}" >>, reasoning_steps |-> << "[6]" >>,
     images |-> << "[5]" >>, videos |-> << "[4]" >>,
     related_questions |-> << "[3]" >>]

FinalInputs ==
    { [NoFinal EXCEPT !.content = << c >>] : c \in {"a", "b", ""} }
    \cup { [NoFinal EXCEPT ![f] = << v >>] : f \in SideFields, v \in SideVals }
    \cup { NoFinal, FullFinal }

MergeStart ==
    /\ m_msg = NewAssistantMsg
    /\ m_before = NewAssistantMsg
    /\ m_kind = "none"
    /\ m_chunk = NoChunk
    /\ m_final = NoFinal
    /\ m_n = 0

\* applyPerplexityChunk(msg, chunk) is called.
MergeChunk ==
    /\ m_n < MaxMerges
    /\ \E chunk \in ChunkInputs :
          /\ m_msg' = applyPerplexityChunk(m_msg, chunk)
          /\ m_chunk' = chunk
    /\ m_before' = m_msg
    /\ m_kind' = "chunk"
    /\ m_n' = m_n + 1
    /\ UNCHANGED m_final
    /\ UNCHANGED << sseVars, exVars, restVars >>

\* applyPerplexityFinal(msg, data) is called.
MergeFinal ==
    /\ m_n < MaxMerges
    /\ \E data \in FinalInputs :
          /\ m_msg' = applyPerplexityFinal(m_msg, data)
          /\ m_final' = data
    /\ m_before' = m_msg
    /\ m_kind' = "final"
    /\ m_n' = m_n + 1
    /\ UNCHANGED m_chunk
    /\ UNCHANGED << sseVars, exVars, restVars >>

\* The call just made is made once more with the same argument.
MergeAgain ==
    /\ m_n < MaxMerges
    /\ m_kind \in {"chunk", "final"}
    /\ m_msg' = IF m_kind = "chunk" THEN applyPerplexityChunk(m_msg, m_chunk)
                ELSE applyPerplexityFinal(m_msg, m_final)
    /\ m_before' = m_msg
    /\ m_kind' = IF m_kind = "chunk" THEN "chunk_again" ELSE "final_again"
    /\ m_n' = m_n + 1
    /\ UNCHANGED << m_chunk, m_final >>
    /\ UNCHANGED << sseVars, exVars, restVars >>

MergeNext == MergeChunk \/ MergeFinal \/ MergeAgain

-----------------------------------------------------------------------------
(* The exchanges of one thread: sendPrompt, runChatCompletion,              *)
(* runDeepResearchAsync and the Stop button                                 *)
(*                                                                          *)
(* An exchange is one sendPrompt call that got past its early returns.  Its *)
(* steps are the pieces of code between two awaits.  Every fetch is given   *)
(* the exchange's signal, so aborting the controller rejects the pending    *)
(* fetch, body read (reader.read, resp.json, resp.text) with an AbortError; *)
(* sleep() is a plain timer and is not ended by the abort.  The rejection   *)
(* is a promise reaction: it runs before the event loop takes another event *)
(* (a click, a network event, a timer).                                     *)

Exchanges == 1..MaxExchanges

\* How an exchange runs: a streaming completion (settings.stream), a
\* non-streaming one, or an async deep-research job.
Modes == {"stream", "json", "async"}
LeanModes == {"stream", "async"}

\* The prompts typed.
Prompts == {"q"}

\* The response bodies of a streaming completion, as scripts of raw events.
ExScripts == { << 3, 1 >>, << 1, 4 >> }
LeanScripts == { << 3, 1 >> }

\* The response objects of a non-streaming completion or a completed job:
\* one with content and every side-channel property, one without content.
ExFinals == { FullFinal, [NoFinal EXCEPT !.citations = << "[1]" >>] }
LeanFinals == { FullFinal }

\* The ids the submit endpoint answers with.
JobIds == {"j1"}

\* The bodies of the status endpoint: { status, response?, error_message? }.
PollReplies ==
    { [status |-> << "IN_PROGRESS" >>, response |-> Absent, error_message |-> Absent],
      [status |-> Absent, response |-> Absent, error_message |-> Absent],
      [status |-> << "COMPLETED" >>, response |-> Absent, error_message |-> Absent],
      [status |-> << "FAILED" >>, response |-> Absent, error_message |-> << "quota" >>],
      [status |-> << "FAILED" >>, response |-> Absent, error_message |-> Absent] }
    \cup { [status |-> << "COMPLETED" >>, response |-> << data >>,
            error_message |-> Absent] : data \in ExFinals }

LeanPollReplies ==
    { [status |-> << "COMPLETED" >>, response |-> << data >>,
       error_message |-> Absent] : data \in LeanFinals }

\* The text of a non-success response, and its status.
ErrorBody == "boom"
ErrorStatus == "500"

\* The message of the TypeError a failed fetch or body read rejects with.
NetworkFailure == "Failed to fetch"

\* '⏳ Deep research is running. This can take a while.' (the hourglass is
\* written "(...)").
Placeholder == "(...) Deep research is running. This can take a while."

\* The async notes (the ellipsis is written "...", the bullet "*").
CreatedNote(id) == "Request created: " \o id \o ". Polling..."
StatusNote(st, id) ==
    "Status: " \o (IF TruthyStr(st) THEN st[1] ELSE "UNKNOWN") \o " * id: " \o id
CompletedNote(id) == "Completed * id: " \o id

\* `\n\n⚠️ ${String(err?.message || err)}` (the warning sign is written "(!)").
ErrorNote(message) == "\n\n(!) " \o message

UserMsg(text) == [role |-> "user", content |-> text]

NoExchange ==
    [pc |-> "idle", mode |-> "none", idx |-> 0, outcome |-> "none",
     script |-> << >>, pos |-> 0, dec |-> FALSE, buffer |-> "",
     id |-> "", polls |-> 0, data |-> Absent, merged |-> Absent]

ExStart ==
    /\ abortController = 0
    /\ aborted = [e \in Exchanges |-> FALSE]
    /\ messages = << >>
    /\ created = << >>
    /\ wlog = {}
    /\ ex = [e \in Exchanges |-> NoExchange]
    /\ nEx = 0
    /\ status = << "idle", "Idle" >>
    /\ stopBtn = FALSE

\* The exchange has started and its sendPrompt call has not returned.
InFlight(e) == e <= nEx /\ ex[e].pc # "done"

\* The awaits an abort rejects: every fetch and body read; not sleep().
AbortableAwaits ==
    {"chat_fetch", "chat_text", "chat_json", "sse_read",
     "submit_fetch", "submit_text", "submit_json",
     "poll_fetch", "poll_text", "poll_json"}

\* A wrong client: the signal is not handed to fetch, nothing is rejected.
RejectPendingNoSignal(e) == FALSE

\* The await exchange e is suspended at has been rejected with an AbortError.
RejectPending(e) ==
    InFlight(e) /\ aborted[e] /\ ex[e].pc \in AbortableAwaits

\* A promise reaction is queued: it runs before any other event.
Busy == \E e \in Exchanges : RejectPending(e)

\* An event other than a promise reaction reaches exchange e at pc.
At(e, pc) == ~ Busy /\ e <= nEx /\ ex[e].pc = pc

\* A wrong client: the exchange writes to the last message of the thread.
TargetLast(e) == Len(messages)

\* The message exchange e writes to: thread.messages[assistantIndex], the
\* object sendPrompt pushed for it.
Target(e) == ex[e].idx

\* The exchange assigns msg to its assistant message.
Write(e, msg) ==
    /\ messages' = [messages EXCEPT ![Target(e)] = msg]
    /\ wlog' = wlog \cup { << e, Target(e) >> }

NoWrite == UNCHANGED << messages, wlog >>

\* The end of sendPrompt: the status set by the try or the catch block, then
\* the finally block hides the Stop button and clears the slot.
End(e, outcome, st, locals) ==
    /\ ex' = [ex EXCEPT ![e] = [NoExchange EXCEPT !.pc = "done",
                                                  !.outcome = outcome,
                                                  !.mode = locals.mode,
                                                  !.idx = locals.idx,
                                                  !.id = locals.id,
                                                  !.polls = locals.polls,
                                                  !.data = locals.data,
                                                  !.merged = locals.merged]]
    /\ status' = st
    /\ stopBtn' = FALSE
    /\ abortController' = 0

Done(e, locals) == End(e, "done", << "idle", "Done" >>, locals)
Stopped(e, locals) == End(e, "stopped", << "idle", "Stopped" >>, locals)
Errored(e, locals) == End(e, "error", << "error", "Error" >>, locals)

\* The exchange goes on to its next await.
Goto(e, locals) ==
    /\ ex' = [ex EXCEPT ![e] = locals]
    /\ UNCHANGED << status, stopBtn, abortController >>

Same == UNCHANGED << aborted, created, nEx, sseVars, mergeVars, restVars >>

\* sendPrompt up to its first await: the controller in the slot, if any, is
\* aborted; the user message and the empty assistant message are pushed; a new
\* controller is put in the slot; the request is built and fetched.
Send(limit, modes) ==
    /\ ~ Busy
    /\ nEx < limit
    /\ \E text \in Prompts, mode \in modes :
          LET e == nEx + 1 IN
          /\ aborted' = IF abortController # 0
                        THEN [aborted EXCEPT ![abortController] = TRUE]
                        ELSE aborted
          /\ messages' = messages \o << UserMsg(text), NewAssistantMsg >>
          /\ created' = created \o << 0, e >>
          /\ ex' = [ex EXCEPT ![e] =
                      [NoExchange EXCEPT !.pc = IF mode = "async" THEN "submit_fetch"
                                                ELSE "chat_fetch",
                                         !.mode = mode,
                                         !.outcome = "running",
                                         !.idx = Len(messages) + 2]]
          /\ nEx' = e
    /\ status' = << "streaming", "Streaming..." >>
    /\ stopBtn' = TRUE
    /\ abortController' = nEx + 1
    /\ UNCHANGED << wlog, sseVars, mergeVars, restVars >>

\* The Stop button is clicked: the controller in the slot, if any, is aborted.
Stop ==
    /\ ~ Busy
    /\ abortController # 0
    /\ ~ aborted[abortController]
    /\ aborted' = [aborted EXCEPT ![abortController] = TRUE]
    /\ UNCHANGED << abortController, messages, created, wlog, ex, nEx, status, stopBtn >>
    /\ UNCHANGED << sseVars, mergeVars, restVars >>

\* A wrong handler: the AbortError is treated as any other error.
RejectedAsError(e) ==
    /\ RejectPending(e)
    /\ Write(e, [messages[Target(e)] EXCEPT !.content = @ \o ErrorNote("Aborted")])
    /\ Errored(e, ex[e])
    /\ Same

\* The rejected await throws the AbortError in exchange e: the catch block
\* reports Stopped and leaves the message alone.
Rejected(e) ==
    /\ RejectPending(e)
    /\ Stopped(e, ex[e])
    /\ NoWrite /\ Same

\* The pending fetch or body read of exchange e fails: the catch block
\* appends the error to the content.
NetFail(e) ==
    /\ ~ Busy /\ InFlight(e) /\ ex[e].pc \in AbortableAwaits
    /\ Write(e, [messages[Target(e)] EXCEPT !.content = @ \o ErrorNote(NetworkFailure)])
    /\ Errored(e, ex[e])
    /\ Same

\* fetch('/api/chat') resolves with a success status.
ChatOk(e, scripts) ==
    /\ At(e, "chat_fetch")
    /\ IF ex[e].mode = "stream"
       THEN \E sc \in scripts : Goto(e, [ex[e] EXCEPT !.pc = "sse_read", !.script = sc])
       ELSE Goto(e, [ex[e] EXCEPT !.pc = "chat_json"])
    /\ NoWrite /\ Same

\* fetch('/api/chat') resolves with a non-success status: resp.text() is read.
ChatNotOk(e) ==
    /\ At(e, "chat_fetch")
    /\ Goto(e, [ex[e] EXCEPT !.pc = "chat_text"])
    /\ NoWrite /\ Same

\* resp.text() resolves: the error is thrown and caught.
ChatText(e) ==
    /\ At(e, "chat_text")
    /\ Write(e, [messages[Target(e)] EXCEPT !.content =
           @ \o ErrorNote("Perplexity API error (" \o ErrorStatus \o "): " \o ErrorBody)])
    /\ Errored(e, ex[e])
    /\ Same

\* resp.json() resolves with the completion: it is merged, sendPrompt ends.
ChatJson(e, finals) ==
    /\ At(e, "chat_json")
    /\ \E data \in finals :
          /\ Write(e, applyPerplexityFinal(messages[Target(e)], data))
          /\ Done(e, [ex[e] EXCEPT !.merged = << data >>])
    /\ Same

\* The sizes of the chunk reader.read() may return when rest bytes of a body
\* of total bytes are unread: all of them, or the first half of the body.
ReadSizes(rest, total) ==
    {rest} \cup (IF rest = total THEN {total \div 2} ELSE {})

\* reader.read() resolves with a chunk: the loop body of consumeSSE runs,
\* onChunk merges each decoded object; at the sentinel consumeSSE returns and
\* sendPrompt ends.
SseChunk(e) ==
    /\ At(e, "sse_read")
    /\ ex[e].pos < Len(BodyOf(ex[e].script))
    /\ \E n \in ReadSizes(Len(BodyOf(ex[e].script)) - ex[e].pos, Len(BodyOf(ex[e].script))) :
          LET body == BodyOf(ex[e].script)
              r == ProcessChunk(ex[e].dec, ex[e].buffer,
                                SubSeq(body, ex[e].pos + 1, ex[e].pos + n))
              locals == [ex[e] EXCEPT !.pos = @ + n, !.dec = r.dec, !.buffer = r.buffer]
          IN  /\ IF r.out # << >>
                 THEN Write(e, MergeAll(messages[Target(e)], r.out))
                 ELSE NoWrite
              /\ IF r.returned THEN Done(e, locals) ELSE Goto(e, locals)
    /\ Same

\* reader.read() resolves with done: consumeSSE returns, sendPrompt ends.
SseEnd(e) ==
    /\ At(e, "sse_read")
    /\ ex[e].pos = Len(BodyOf(ex[e].script))
    /\ Done(e, ex[e])
    /\ NoWrite /\ Same

\* fetch('/api/async/submit') resolves with a success status.
SubmitOk(e) ==
    /\ At(e, "submit_fetch")
    /\ Goto(e, [ex[e] EXCEPT !.pc = "submit_json"])
    /\ NoWrite /\ Same

\* fetch('/api/async/submit') resolves with a non-success status.
SubmitNotOk(e) ==
    /\ At(e, "submit_fetch")
    /\ Goto(e, [ex[e] EXCEPT !.pc = "submit_text"])
    /\ NoWrite /\ Same

\* submitResp.text() resolves: the error is thrown and caught.
SubmitText(e) ==
    /\ At(e, "submit_text")
    /\ Write(e, [messages[Target(e)] EXCEPT !.content =
           @ \o ErrorNote("Async submit error (" \o ErrorStatus \o "): " \o ErrorBody)])
    /\ Errored(e, ex[e])
    /\ Same

\* The top of the poll loop: an aborted signal throws the AbortError, else
\* the exchange sleeps.
LoopTop(e, locals) ==
    IF aborted[e] THEN Stopped(e, locals)
    ELSE Goto(e, [locals EXCEPT !.pc = "sleep"])

\* submitResp.json() resolves with the job: the note and the placeholder are
\* written and the poll loop is entered.
SubmitJson(e) ==
    /\ At(e, "submit_json")
    /\ \E id \in JobIds :
          /\ Write(e, [messages[Target(e)] EXCEPT
                         !.meta.async = << CreatedNote(id) >>,
                         !.content = IF @ # "" THEN @ ELSE Placeholder])
          /\ LoopTop(e, [ex[e] EXCEPT !.id = id])
    /\ Same

\* A wrong poller: it gives up after two status fetches.
SleepOverGiveUp(e) ==
    /\ At(e, "sleep")
    /\ ex[e].polls < MaxPolls
    /\ IF ex[e].polls >= 2
       THEN /\ Write(e, [messages[Target(e)] EXCEPT !.content = @ \o ErrorNote("Timed out")])
            /\ Errored(e, ex[e])
       ELSE /\ Goto(e, [ex[e] EXCEPT !.pc = "poll_fetch", !.polls = @ + 1,
                                  !.data = Absent])
            /\ NoWrite
    /\ Same

\* sleep(3000) is over: the status fetch is issued.
SleepOver(e) ==
    /\ At(e, "sleep")
    /\ ex[e].polls < MaxPolls
    /\ Goto(e, [ex[e] EXCEPT !.pc = "poll_fetch", !.polls = @ + 1,
                                  !.data = Absent])
    /\ NoWrite /\ Same

\* The status fetch resolves with a success status.
PollOk(e) ==
    /\ At(e, "poll_fetch")
    /\ Goto(e, [ex[e] EXCEPT !.pc = "poll_json"])
    /\ NoWrite /\ Same

\* The status fetch resolves with a non-success status.
PollNotOk(e) ==
    /\ At(e, "poll_fetch")
    /\ Goto(e, [ex[e] EXCEPT !.pc = "poll_text"])
    /\ NoWrite /\ Same

\* A wrong poller: a non-success status fetch is retried.
PollTextRetry(e) ==
    /\ At(e, "poll_text")
    /\ LoopTop(e, ex[e])
    /\ NoWrite /\ Same

\* pollResp.text() resolves: the error is thrown and caught.
PollText(e) ==
    /\ At(e, "poll_text")
    /\ Write(e, [messages[Target(e)] EXCEPT !.content =
           @ \o ErrorNote("Async poll error (" \o ErrorStatus \o "): " \o ErrorBody)])
    /\ Errored(e, ex[e])
    /\ Same

\* A wrong completion: the note is set, the result is not merged.
CompleteJobNoMerge(msg, response, id) ==
    [msg EXCEPT !.meta.async = << CompletedNote(id) >>]

\* The completed branch: the result is merged and the note is set.
CompleteJob(msg, response, id) ==
    [applyPerplexityFinal(msg, response) EXCEPT !.meta.async = << CompletedNote(id) >>]

\* A wrong note: the content is cleared when the status is noted.
NoteStatusClearContent(msg, data, id) ==
    [msg EXCEPT !.meta.async = << StatusNote(data.status, id) >>, !.content = ""]

\* assistantMsg.meta.async = `Status: ${data.status || 'UNKNOWN'} * id: ${id}`.
NoteStatus(msg, data, id) ==
    [msg EXCEPT !.meta.async = << StatusNote(data.status, id) >>]

\* The message of the error a FAILED reply throws.
FailureMessage(data) ==
    IF TruthyStr(data.error_message) THEN data.error_message[1]
    ELSE "Deep research request failed"

\* A wrong handler: the error text replaces the content.
FailJobReplace(msg, data) ==
    [msg EXCEPT !.content = ErrorNote(FailureMessage(data))]

\* The FAILED branch and the catch block of sendPrompt: the error is thrown,
\* its message is appended to the content.
FailJob(msg, data) ==
    [msg EXCEPT !.content = @ \o ErrorNote(FailureMessage(data))]

\* pollResp.json() resolves with the job status (kept in data until the next
\* status fetch is issued): the status note is written; FAILED throws;
\* COMPLETED with a response merges it and returns; anything else goes back to
\* the top of the loop.
PollJson(e, replies) ==
    /\ At(e, "poll_json")
    /\ \E data \in replies :
          LET noted == NoteStatus(messages[Target(e)], data, ex[e].id)
              locals == [ex[e] EXCEPT !.data = << data >>]
          IN  IF data.status = << "FAILED" >>
              THEN /\ Write(e, FailJob(noted, data))
                   /\ Errored(e, locals)
              ELSE IF data.status = << "COMPLETED" >> /\ data.response # Absent
              THEN /\ Write(e, CompleteJob(noted, data.response[1], ex[e].id))
                   /\ Done(e, [locals EXCEPT !.merged = data.response])
              ELSE /\ Write(e, noted)
                   /\ LoopTop(e, locals)
    /\ Same

\* Overlapping exchanges; the server always answers with success.
Next ==
    \/ Send(MaxExchanges, LeanModes)
    \/ Stop
    \/ \E e \in Exchanges : Rejected(e)
    \/ \E e \in Exchanges : ChatOk(e, LeanScripts)
    \/ \E e \in Exchanges : SseChunk(e)
    \/ \E e \in Exchanges : SseEnd(e)
    \/ \E e \in Exchanges : SubmitOk(e)
    \/ \E e \in Exchanges : SubmitJson(e)
    \/ \E e \in Exchanges : SleepOver(e)
    \/ \E e \in Exchanges : PollOk(e)
    \/ \E e \in Exchanges : PollJson(e, LeanPollReplies)

\* Every response of the server.
NextOne ==
    \/ Send(MaxRichExchanges, Modes)
    \/ Stop
    \/ \E e \in Exchanges : Rejected(e)
    \/ \E e \in Exchanges : NetFail(e)
    \/ \E e \in Exchanges : ChatOk(e, ExScripts)
    \/ \E e \in Exchanges : ChatNotOk(e)
    \/ \E e \in Exchanges : ChatText(e)
    \/ \E e \in Exchanges : ChatJson(e, ExFinals)
    \/ \E e \in Exchanges : SseChunk(e)
    \/ \E e \in Exchanges : SseEnd(e)
    \/ \E e \in Exchanges : SubmitOk(e)
    \/ \E e \in Exchanges : SubmitNotOk(e)
    \/ \E e \in Exchanges : SubmitText(e)
    \/ \E e \in Exchanges : SubmitJson(e)
    \/ \E e \in Exchanges : SleepOver(e)
    \/ \E e \in Exchanges : PollOk(e)
    \/ \E e \in Exchanges : PollNotOk(e)
    \/ \E e \in Exchanges : PollText(e)
    \/ \E e \in Exchanges : PollJson(e, PollReplies)

-----------------------------------------------------------------------------
(* The settings and the request payload                                     *)
(*                                                                          *)
(* A null setting is << >>, a value v is << v >>.  An object is a function  *)
(* from its keys, so the keys present are its DOMAIN.  The texts of the     *)
(* thread are plain strings (no attachments).                               *)

\* {} : the object without a key.
EmptyObject == [k \in {} |-> 0]

\* The key k with value v when cond holds, else nothing.
Opt(cond, k, v) == IF cond THEN k :> v ELSE EmptyObject

\* o.k || {}
Prop(o, k) == IF k \in DOMAIN o THEN o[k] ELSE EmptyObject

DEFAULT_SETTINGS ==
    [model |-> "sonar", search_mode |-> "web", stream |-> TRUE,
     stream_mode |-> "full", max_tokens |-> Absent, reasoning_effort |-> Absent,
     return_images |-> FALSE, return_related_questions |-> FALSE,
     enable_search_classifier |-> FALSE, disable_search |-> FALSE,
     safe_search |-> TRUE,
     web_search_options |-> [search_context_size |-> Absent, search_type |-> Absent],
     search_domain_filter |-> << >>, search_language_filter |-> << >>,
     search_recency_filter |-> Absent,
     image_domain_filter |-> << >>, image_format_filter |-> << >>,
     media_response |-> [overrides |-> [return_videos |-> FALSE]],
     language_preference |-> Absent, system_prompt |-> "",
     deep_research_async |-> TRUE]

\* The range readSettingsFromUI clamps max_tokens to.
MinTokens == 1
MaxTokens == 128000

\* Number(text) for the texts of the model; every other text is not a number.
NaN == [nan |-> TRUE, val |-> 0]
NumberDocs ==
    { [text |-> "5000", num |-> [nan |-> FALSE, val |-> 5000]],
      [text |-> "0", num |-> [nan |-> FALSE, val |-> 0]],
      [text |-> "-3", num |-> [nan |-> FALSE, val |-> -3]],
      [text |-> "999999", num |-> [nan |-> FALSE, val |-> 999999]] }
NumberOf(text) ==
    IF \E d \in NumberDocs : d.text = text
    THEN (CHOOSE d \in NumberDocs : d.text = text).num
    ELSE NaN

clamp(n, min, max) ==
    IF n.nan THEN min ELSE MathMin(max, MathMax(min, n.val))

\* The concatenation of the sequences of a sequence.
Flatten(ss) == Concat(ss, 1, Len(ss))

\* parseList: split on runs of newlines and commas, trim, drop the empty ones.
parseList(text) ==
    LET rows == Split(text, "\n")
        cells == Flatten([i \in 1..Len(rows) |-> Split(rows[i], ",")])
    IN  FilterNonEmpty(MapTrim(cells))

\* `x || null` of a text input.
OrNull(text) == IF text # "" THEN << text >> ELSE Absent

\* The settings form as openSettings fills it for the default settings.
DefaultForm ==
    [modelSelect |-> "sonar", searchMode |-> "web", streamToggle |-> "true",
     streamMode |-> "full", maxTokens |-> "", reasoningEffort |-> "",
     returnImages |-> "false", returnVideos |-> "false", returnRelated |-> "false",
     enableSearchClassifier |-> "false", disableSearch |-> "false",
     safeSearch |-> "true", searchContextSize |-> "", searchType |-> "",
     languagePreference |-> "", systemPrompt |-> "",
     searchDomainFilter |-> "", searchLanguageFilter |-> "", searchRecency |-> "",
     imageDomainFilter |-> "", imageFormatFilter |-> "",
     deepResearchAsync |-> "true"]

\* The forms saved: the default one, and one per group of inputs changed.
Forms ==
    { DefaultForm,
      [DefaultForm EXCEPT !.maxTokens = " 5000 "],
      [DefaultForm EXCEPT !.maxTokens = "0"],
      [DefaultForm EXCEPT !.maxTokens = "999999"],
      [DefaultForm EXCEPT !.maxTokens = "abc"],
      [DefaultForm EXCEPT !.streamToggle = "false", !.safeSearch = "false",
                          !.returnImages = "true"],
      [DefaultForm EXCEPT !.returnVideos = "true", !.returnRelated = "true",
                          !.enableSearchClassifier = "true", !.disableSearch = "true"],
      [DefaultForm EXCEPT !.searchDomainFilter = "a.com\n b.com,,",
                          !.searchLanguageFilter = "en, fr",
                          !.imageDomainFilter = ",",
                          !.imageFormatFilter = "png"],
      [DefaultForm EXCEPT !.searchType = "pro"],
      [DefaultForm EXCEPT !.searchContextSize = "high", !.reasoningEffort = "high",
                          !.languagePreference = " en ", !.searchRecency = "week"],
      [DefaultForm EXCEPT !.systemPrompt = " Be brief. "],
      [DefaultForm EXCEPT !.systemPrompt = "  "] }

readSettingsFromUI(form) ==
    [DEFAULT_SETTINGS EXCEPT
        !.model = form.modelSelect,
        !.search_mode = form.searchMode,
        !.stream = (form.streamToggle = "true"),
        !.stream_mode = form.streamMode,
        !.max_tokens = IF Trim(form.maxTokens) # ""
                       THEN << clamp(NumberOf(Trim(form.maxTokens)), MinTokens, MaxTokens) >>
                       ELSE Absent,
        !.reasoning_effort = OrNull(form.reasoningEffort),
        !.return_images = (form.returnImages = "true"),
        !.media_response.overrides.return_videos = (form.returnVideos = "true"),
        !.return_related_questions = (form.returnRelated = "true"),
        !.enable_search_classifier = (form.enableSearchClassifier = "true"),
        !.disable_search = (form.disableSearch = "true"),
        !.safe_search = (form.safeSearch = "true"),
        !.web_search_options.search_context_size = OrNull(form.searchContextSize),
        !.web_search_options.search_type = OrNull(form.searchType),
        !.language_preference = OrNull(Trim(form.languagePreference)),
        !.system_prompt = form.systemPrompt,
        !.search_domain_filter = parseList(form.searchDomainFilter),
        !.search_language_filter = parseList(form.searchLanguageFilter),
        !.search_recency_filter = OrNull(form.searchRecency),
        !.image_domain_filter = parseList(form.imageDomainFilter),
        !.image_format_filter = parseList(form.imageFormatFilter),
        !.deep_research_async = (form.deepResearchAsync = "true")]

\* mergeSettings: the keys of override over those of base, one level deeper
\* for web_search_options and media_response, two for its overrides.
mergeSettings(base, override) ==
    LET out == override @@ base
        media == Prop(override, "media_response")
    IN  [out EXCEPT
           !.web_search_options =
               Prop(override, "web_search_options") @@ base.web_search_options,
           !.media_response =
               [(media @@ base.media_response) EXCEPT
                   !.overrides = Prop(media, "overrides") @@ base.media_response.overrides]]

\* The settings items found in localStorage: the text, whether JSON.parse
\* yields a truthy value, and the object it yields.
SettingsDocs ==
    { [text |-> "{}", truthy |-> TRUE, obj |-> EmptyObject],
      [text |-> "{\"max_tokens\":999999}", truthy |-> TRUE,
       obj |-> ("max_tokens" :> << 999999 >>)],
      [text |-> "{\"max_tokens\":0}", truthy |-> TRUE,
       obj |-> ("max_tokens" :> << 0 >>)],
      [text |-> "{\"max_tokens\":4096,\"stream\":false}", truthy |-> TRUE,
       obj |-> ("max_tokens" :> << 4096 >> @@ "stream" :> FALSE)],
      [text |-> "{\"media_response\":{\"overrides\":{\"return_videos\":true}}}",
       truthy |-> TRUE,
       obj |-> ("media_response" :> ("overrides" :> ("return_videos" :> TRUE)))],
      [text |-> "{\"web_search_options\":{\"search_type\":\"pro\"}}",
       truthy |-> TRUE,
       obj |-> ("web_search_options" :> ("search_type" :> << "pro" >>))],
      [text |-> "null", truthy |-> FALSE, obj |-> EmptyObject],
      [text |-> "{", truthy |-> FALSE, obj |-> EmptyObject] }

\* JSON.stringify(state.settings), as the item saveSettings stores.
Stringify(s) == [text |-> "saved", truthy |-> TRUE, obj |-> s]

\* The map of buildPayload: a system message as it is, of any other one the
\* role and the content as a string.
ConvertMsg(m) ==
    IF m.role = "system" THEN m ELSE [role |-> m.role, content |-> m.content]

\* The system message, when the trimmed system prompt is not empty.
SystemMessages(s) ==
    IF s.system_prompt # "" /\ Trim(s.system_prompt) # ""
    THEN << [role |-> "system", content |-> Trim(s.system_prompt)] >>
    ELSE << >>

\* The keys every payload has.
PayloadBase(s, thread) ==
    [model |-> s.model,
     messages |-> SystemMessages(s) \o [i \in 1..Len(thread) |-> ConvertMsg(thread[i])],
     search_mode |-> s.search_mode,
     stream |-> s.stream,
     stream_mode |-> IF s.stream_mode # "" THEN s.stream_mode ELSE "full",
     safe_search |-> s.safe_search]

\* max_tokens, reasoning_effort, language_preference.
PayloadLimits(s) ==
    Opt(s.max_tokens # Absent, "max_tokens", s.max_tokens[1])
    @@ Opt(TruthyStr(s.reasoning_effort), "reasoning_effort", s.reasoning_effort[1])
    @@ Opt(TruthyStr(s.language_preference), "language_preference",
           s.language_preference[1])

\* A wrong builder: a flag that is off is sent as false.
PayloadFlagsFalse(s) ==
    [return_images |-> s.return_images,
     return_related_questions |-> s.return_related_questions,
     enable_search_classifier |-> s.enable_search_classifier,
     disable_search |-> s.disable_search]
    @@ Opt(s.media_response.overrides.return_videos, "media_response",
           [overrides |-> [return_videos |-> TRUE]])

\* The search flags and the media response overrides.
PayloadFlags(s) ==
    Opt(s.return_images, "return_images", TRUE)
    @@ Opt(s.return_related_questions, "return_related_questions", TRUE)
    @@ Opt(s.enable_search_classifier, "enable_search_classifier", TRUE)
    @@ Opt(s.disable_search, "disable_search", TRUE)
    @@ Opt(s.media_response.overrides.return_videos, "media_response",
           [overrides |-> [return_videos |-> TRUE]])

\* The four list filters.
ListFilters ==
    {"search_domain_filter", "search_language_filter",
     "image_domain_filter", "image_format_filter"}

\* A wrong builder: an empty list is sent as it is.
PayloadFiltersEmpty(s) ==
    [k \in ListFilters |-> s[k]]
    @@ Opt(TruthyStr(s.search_recency_filter), "search_recency_filter",
           s.search_recency_filter[1])

\* The list filters and the recency filter.
PayloadFilters(s) ==
    [k \in {f \in ListFilters : Len(s[f]) > 0} |-> s[k]]
    @@ Opt(TruthyStr(s.search_recency_filter), "search_recency_filter",
           s.search_recency_filter[1])

\* web_search_options, when one of its two settings is set.
PayloadWso(s) ==
    LET wso == Opt(TruthyStr(s.web_search_options.search_context_size),
                   "search_context_size", s.web_search_options.search_context_size[1])
               @@ Opt(TruthyStr(s.web_search_options.search_type),
                      "search_type", s.web_search_options.search_type[1])
    IN  Opt(DOMAIN wso # {}, "web_search_options", wso)

buildPayload(s, thread) ==
    PayloadBase(s, thread) @@ PayloadLimits(s) @@ PayloadFlags(s)
    @@ PayloadFilters(s) @@ PayloadWso(s)

\* The prompts typed.
PayPrompts == {"q", "r"}

\* The text an answer leaves in the assistant message.
AnswerText == "a"

PayStart ==
    /\ settings = DEFAULT_SETTINGS
    /\ stored \in {Absent} \cup { << d >> : d \in SettingsDocs }
    /\ b_thread = << >>
    /\ b_user = UserMsg("")
    /\ payload = Absent
    /\ b_n = 0
    /\ b_pc = "boot"

PayIdle ==
    /\ settings = DEFAULT_SETTINGS
    /\ stored = Absent
    /\ b_thread = << >>
    /\ b_user = UserMsg("")
    /\ payload = Absent
    /\ b_n = 0
    /\ b_pc = "idle"

PaySame == UNCHANGED << sseVars, mergeVars, exVars, proxyVars >>

\* loadPersisted: a settings item that parses to a truthy value is merged over
\* the defaults.
LoadPersisted ==
    /\ b_pc = "boot"
    /\ settings' = IF stored # Absent /\ stored[1].truthy
                   THEN mergeSettings(DEFAULT_SETTINGS, stored[1].obj)
                   ELSE settings
    /\ b_pc' = "ready"
    /\ UNCHANGED << stored, b_thread, b_user, payload, b_n >>
    /\ PaySame

\* The Save button of the settings drawer.
SaveSettings ==
    /\ b_pc = "ready"
    /\ \E form \in Forms :
          /\ settings' = readSettingsFromUI(form)
          /\ stored' = << Stringify(readSettingsFromUI(form)) >>
    /\ payload' = Absent
    /\ UNCHANGED << b_thread, b_user, b_n, b_pc >>
    /\ PaySame

\* The Reset button of the settings drawer.
ResetSettings ==
    /\ b_pc = "ready"
    /\ settings' = DEFAULT_SETTINGS
    /\ stored' = << Stringify(DEFAULT_SETTINGS) >>
    /\ payload' = Absent
    /\ UNCHANGED << b_thread, b_user, b_n, b_pc >>
    /\ PaySame

\* The page is loaded again: the state starts from the defaults, the stored
\* settings and the thread are kept.
Reload ==
    /\ b_pc = "ready"
    /\ settings' = DEFAULT_SETTINGS
    /\ payload' = Absent
    /\ b_pc' = "boot"
    /\ UNCHANGED << stored, b_thread, b_user, b_n >>
    /\ PaySame

\* sendPrompt up to the fetch: the user message and the empty assistant
\* message are pushed, then runChatCompletion or runDeepResearchAsync builds
\* the payload from the thread.
SendPayload ==
    /\ b_pc = "ready"
    /\ b_n < MaxSends
    /\ \E text \in PayPrompts :
          LET pushed == b_thread \o << UserMsg(text), NewAssistantMsg >>
          IN  /\ b_thread' = pushed
              /\ b_user' = UserMsg(text)
              /\ payload' = << buildPayload(settings, pushed) >>
    /\ b_n' = b_n + 1
    /\ UNCHANGED << settings, stored, b_pc >>
    /\ PaySame

\* The exchange ends with an answer merged into its assistant message.
Answer ==
    /\ b_pc = "ready"
    /\ b_thread # << >>
    /\ b_thread[Len(b_thread)].content = ""
    /\ b_thread' = [b_thread EXCEPT ![Len(b_thread)].content = AnswerText]
    /\ payload' = Absent
    /\ UNCHANGED << settings, stored, b_user, b_n, b_pc >>
    /\ PaySame

PayNext ==
    \/ LoadPersisted
    \/ SaveSettings
    \/ ResetSettings
    \/ Reload
    \/ SendPayload
    \/ Answer

-----------------------------------------------------------------------------
(* The proxy (src/server.js)                                                *)
(*                                                                          *)
(* One request is handled at a time, from its arrival at a route to the     *)
(* end of its response.  Headers are functions from the header names        *)
(* present to their values.                                                 *)

Routes == {"chat", "submit", "get"}

\* The values of the x-pplx-key and x-perplexity-key headers of a request.
KeyHeaders ==
    { [key1 |-> Absent, key2 |-> Absent],
      [key1 |-> << "" >>, key2 |-> Absent],
      [key1 |-> << "  " >>, key2 |-> << "k2" >>],
      [key1 |-> << " k " >>, key2 |-> Absent],
      [key1 |-> Absent, key2 |-> << "k2" >>] }

\* The :id parameters of a status request.
IdParams == {"j1", " ", "a b"}

\* The request body, as express.json() parsed it.
RequestBody == "{\"model\":\"sonar\"}"

Requests ==
    { [route |-> r, key1 |-> k.key1, key2 |-> k.key2, id |-> "", body |-> << RequestBody >>]
        : r \in {"chat", "submit"}, k \in KeyHeaders }
    \cup
    { [route |-> "get", key1 |-> k.key1, key2 |-> k.key2, id |-> i, body |-> Absent]
        : k \in KeyHeaders, i \in IdParams }

\* A wrong proxy: the key is not trimmed.
getApiKeyNoTrim(r) ==
    LET key == IF TruthyStr(r.key1) THEN r.key1 ELSE r.key2
    IN  IF TruthyStr(key) THEN key[1] ELSE ""

\* getApiKey: the first of the two headers that is not empty, trimmed.
getApiKey(r) ==
    LET key == IF TruthyStr(r.key1) THEN r.key1 ELSE r.key2
    IN  IF TruthyStr(key) THEN Trim(key[1]) ELSE ""

\* encodeURIComponent, for the characters of the ids of the model.
EncodeChar(c) == IF c = " " THEN "%20" ELSE c
EncodeURIComponent(text) ==
    Concat([i \in 1..Len(text) |-> EncodeChar(SubSeq(text, i, i))], 1, Len(text))

\* The upstream address of a route.
UpstreamUrl(r) ==
    IF r.route = "chat" THEN "https://api.perplexity.ai/chat/completions"
    ELSE IF r.route = "submit" THEN "https://api.perplexity.ai/async/chat/completions"
    ELSE "https://api.perplexity.ai/async/chat/completions/"
         \o EncodeURIComponent(Trim(r.id))

\* The upstream call of a request with credential apiKey.
UpstreamCall(r, apiKey) ==
    [url |-> UpstreamUrl(r),
     method |-> IF r.route = "get" THEN "GET" ELSE "POST",
     authorization |-> "Bearer " \o apiKey,
     body |-> r.body]

\* The headers safeCopyHeaders lets through.
AllowList == {"content-type", "cache-control", "x-request-id",
              "x-ratelimit-limit", "x-ratelimit-remaining", "x-ratelimit-reset"}

\* A wrong proxy: every upstream header is copied.
safeCopyHeadersAll(headers) == headers

\* The allow-listed headers present upstream with a non-empty value.
safeCopyHeaders(headers) ==
    [h \in {a \in AllowList \cap DOMAIN headers : headers[a] # ""} |-> headers[h]]

\* The header sets of an upstream response.
UpstreamHeaders ==
    { [h \in {"content-type"} |-> "text/event-stream"],
      ("content-type" :> "application/json" @@ "set-cookie" :> "s=1"
         @@ "x-request-id" :> "r1" @@ "x-ratelimit-remaining" :> ""),
      EmptyObject }

\* The bodies of an upstream response, as the chunks they arrive in; << >> is
\* a response without a body (upstream.body is null).
UpstreamBodies == { Absent, << << "{\"id\":\"j1\"}" >> >>, << << "data: a\n\n", "data: b\n\n" >> >> }

UpstreamResponses ==
    { [status |-> st, headers |-> h, body |-> b]
        : st \in {"200", "429"}, h \in UpstreamHeaders, b \in UpstreamBodies }

\* The whole body of an upstream response as one text.
BodyText(up) ==
    IF up.body = Absent THEN "" ELSE Concat(up.body[1], 1, Len(up.body[1]))

NoResponse == [status |-> "200", headers |-> EmptyObject, body |-> << >>, ended |-> FALSE]

MissingKey == "{\"error\":\"Missing API key. Send it in the x-pplx-key header.\"}"
MissingId == "{\"error\":\"Missing async request id.\"}"
ProxyError == "{\"error\":\"Server proxy error.\"}"

\* res.status(code).json(obj) on response r.
Json(r, code, text) ==
    [r EXCEPT !.status = code,
              !.headers = ("content-type" :> "application/json") @@ r.headers,
              !.body = << text >>,
              !.ended = TRUE]

\* res.send(text) on response r.
SendBody(r, text) == [r EXCEPT !.body = << text >>, !.ended = TRUE]

ProxyStart ==
    /\ req = << >>
    /\ res = NoResponse
    /\ calls = << >>
    /\ upstream = << >>
    /\ x_pc = "idle"

ProxyIdle == ProxyStart

ProxySame == UNCHANGED << sseVars, mergeVars, exVars, payVars >>

\* A request arrives at its route: without a credential it is answered 400;
\* a status request without an id is answered 400; else the upstream fetch is
\* issued.
Receive ==
    /\ x_pc \in {"idle", "sent"}
    /\ \E r \in Requests :
          /\ req' = << r >>
          /\ upstream' = << >>
          /\ IF getApiKey(r) = ""
             THEN /\ res' = Json(NoResponse, "400", MissingKey)
                  /\ calls' = << >>
                  /\ x_pc' = "sent"
             ELSE IF r.route = "get" /\ Trim(r.id) = ""
             THEN /\ res' = Json(NoResponse, "400", MissingId)
                  /\ calls' = << >>
                  /\ x_pc' = "sent"
             ELSE /\ res' = NoResponse
                  /\ calls' = << UpstreamCall(r, getApiKey(r)) >>
                  /\ x_pc' = "fetch"
    /\ ProxySame

\* The upstream fetch rejects: the catch block of the route answers 500.
FetchFails ==
    /\ x_pc = "fetch"
    /\ res' = Json(res, "500", ProxyError)
    /\ x_pc' = "sent"
    /\ UNCHANGED << req, calls, upstream >>
    /\ ProxySame

\* The upstream fetch resolves: the status and the allow-listed headers are
\* set.  The status route reads the body as text; the other two read the text
\* of a response without a body, and pipe a body to the caller, unless setting
\* up the pipe throws, and then they read the body into a buffer.
FetchResolves ==
    /\ x_pc = "fetch"
    /\ \E up \in UpstreamResponses, pipeThrows \in BOOLEAN :
          /\ upstream' = << up >>
          /\ res' = [res EXCEPT !.status = up.status,
                                !.headers = safeCopyHeaders(up.headers)]
          /\ x_pc' = IF req[1].route = "get" \/ up.body = Absent THEN "text"
                     ELSE IF pipeThrows THEN "buffer"
                     ELSE "pipe"
    /\ UNCHANGED << req, calls >>
    /\ ProxySame

\* upstream.text() resolves: the text is sent, as JSON on the status route.
TextResolves ==
    /\ x_pc = "text"
    /\ res' = SendBody(IF req[1].route = "get"
                       THEN [res EXCEPT !.headers =
                                ("content-type" :> "application/json") @@ res.headers]
                       ELSE res,
                       BodyText(upstream[1]))
    /\ x_pc' = "sent"
    /\ UNCHANGED << req, calls, upstream >>
    /\ ProxySame

\* upstream.text() rejects: on the status route the catch block answers 500;
\* on the other routes the empty text is sent.
TextFails ==
    /\ x_pc = "text"
    /\ res' = IF req[1].route = "get" THEN Json(res, "500", ProxyError)
              ELSE SendBody(res, "")
    /\ x_pc' = "sent"
    /\ UNCHANGED << req, calls, upstream >>
    /\ ProxySame

\* The pipe hands the next chunk of the upstream body to the caller.
PipeChunk ==
    /\ x_pc = "pipe"
    /\ Len(res.body) < Len(upstream[1].body[1])
    /\ res' = [res EXCEPT !.body = Append(@, upstream[1].body[1][Len(@) + 1])]
    /\ UNCHANGED << req, calls, upstream, x_pc >>
    /\ ProxySame

\* The upstream body has ended: the pipe ends the response.
PipeEnd ==
    /\ x_pc = "pipe"
    /\ Len(res.body) = Len(upstream[1].body[1])
    /\ res' = [res EXCEPT !.ended = TRUE]
    /\ x_pc' = "sent"
    /\ UNCHANGED << req, calls, upstream >>
    /\ ProxySame

\* The upstream body fails while it is piped: the stream emits an error no
\* listener takes, the process stops with the response unfinished.
PipeError ==
    /\ x_pc = "pipe"
    /\ Len(res.body) < Len(upstream[1].body[1])
    /\ x_pc' = "crashed"
    /\ UNCHANGED << req, res, calls, upstream >>
    /\ ProxySame

\* upstream.arrayBuffer() resolves: the whole body is sent in one piece.
BufferResolves ==
    /\ x_pc = "buffer"
    /\ res' = SendBody(res, BodyText(upstream[1]))
    /\ x_pc' = "sent"
    /\ UNCHANGED << req, calls, upstream >>
    /\ ProxySame

\* upstream.arrayBuffer() rejects: the catch block of the route answers 500.
BufferFails ==
    /\ x_pc = "buffer"
    /\ res' = Json(res, "500", ProxyError)
    /\ x_pc' = "sent"
    /\ UNCHANGED << req, calls, upstream >>
    /\ ProxySame

ProxyNext ==
    \/ Receive
    \/ FetchFails
    \/ FetchResolves
    \/ TextResolves
    \/ TextFails
    \/ PipeChunk
    \/ PipeEnd
    \/ PipeError
    \/ BufferResolves
    \/ BufferFails

-----------------------------------------------------------------------------
(* Specifications *)

\* The variables of a part that is not running keep these values.
SSEIdle ==
    /\ s_script = << >>
    /\ s_stream = ""
    /\ s_pos = 0
    /\ s_cuts = << >>
    /\ s_dec = FALSE
    /\ s_buffer = ""
    /\ s_msg = NewAssistantMsg
    /\ s_delivered = << >>
    /\ s_pc = "idle"

MergeIdle ==
    /\ m_msg = NewAssistantMsg
    /\ m_before = NewAssistantMsg
    /\ m_kind = "idle"
    /\ m_chunk = NoChunk
    /\ m_final = NoFinal
    /\ m_n = 0

SSEInit == SSEStart /\ MergeIdle /\ ExStart /\ PayIdle /\ ProxyIdle
SpecSSE == SSEInit /\ [][SSENext]_vars

TailInit == TailStart /\ MergeIdle /\ ExStart /\ PayIdle /\ ProxyIdle
SpecTail == TailInit /\ [][SSENext]_vars

MergeInit == MergeStart /\ SSEIdle /\ ExStart /\ PayIdle /\ ProxyIdle
SpecMerge == MergeInit /\ [][MergeNext]_vars

Init == ExStart /\ SSEIdle /\ MergeIdle /\ PayIdle /\ ProxyIdle
Spec == Init /\ [][Next]_vars
SpecOne == Init /\ [][NextOne]_vars

PayInit == PayStart /\ SSEIdle /\ MergeIdle /\ ExStart /\ ProxyIdle
SpecPayload == PayInit /\ [][PayNext]_vars

ProxyInit == ProxyStart /\ SSEIdle /\ MergeIdle /\ ExStart /\ PayIdle
SpecProxy == ProxyInit /\ [][ProxyNext]_vars

-----------------------------------------------------------------------------
(* Properties of the decoder *)

\* All bytes of the body were read, or the sentinel ended the call.
SSEFinished == s_pc = "returned" \/ s_pos = Len(s_stream)

\* What consumeSSE delivers when the whole body arrives in one chunk.
DeliveredInOneChunk(body) == ProcessChunk(FALSE, "", body).out

\* C1: for every body and every offset at which it is cut into two chunks,
\* once the body is consumed the objects handed to onChunk are exactly those
\* handed over when the whole body arrives in one chunk: same objects, same
\* order, none duplicated, none dropped.
C1_Fragmentation ==
    SSEFinished => s_delivered = DeliveredInOneChunk(s_stream)

\* C1 witness: a body of two different data events, cut between the two
\* newlines of the first separator, has been consumed in two reads and both
\* events were delivered.
C1_Witness ==
    /\ Len(s_script) = 2
    /\ s_script[1] \in DataEvents /\ s_script[2] \in DataEvents
    /\ s_script[1] # s_script[2]
    /\ Len(s_cuts) = 2
    /\ s_cuts[1] = Len(RawEvents[s_script[1]].bytes) + 1
    /\ s_pos = Len(s_stream)
    /\ s_delivered = << RawEvents[s_script[1]].objs[1], RawEvents[s_script[2]].objs[1] >>

IsPrefix(a, b) == Len(a) <= Len(b) /\ a = SubSeq(b, 1, Len(a))

\* C2: nothing that follows the [DONE] sentinel is ever handed to onChunk
\* (the delivered objects are always a prefix of those before the sentinel);
\* when the sentinel has been decoded every object before it has been
\* delivered, and no further read is made; and a sentinel in the bytes read so
\* far has ended the call.
C2_Sentinel ==
    /\ IsPrefix(s_delivered, Expected(s_script))
    /\ s_pc = "returned" =>
          /\ s_delivered = Expected(s_script)
          /\ ~ ENABLED (SSEReadFirst \/ SSEReadRest \/ SSEReadDone)
    /\ (HasSentinel(s_script) /\ s_pos = Len(s_stream)) => s_pc = "returned"

\* C2 witness: the call has returned at a sentinel that has an object before
\* it and a data line after it in the same raw event, with a further raw data
\* event after it that was not yet read.
C2_Witness ==
    /\ s_pc = "returned"
    /\ s_script = << 7, 1 >>
    /\ s_pos < Len(s_stream)
    /\ s_delivered = << CitationsChunk >>

\* An object that carries a content delta and nothing else the merge reads.
ContentOnly(obj) ==
    /\ TruthyStr(obj.delta_content)
    /\ obj = [NoChunk EXCEPT !.delta_content = obj.delta_content]

\* The deltas of objs, concatenated in order.
RECURSIVE ConcatDeltas(_)
ConcatDeltas(objs) ==
    IF objs = << >> THEN ""
    ELSE Head(objs).delta_content[1] \o ConcatDeltas(Tail(objs))

\* C3: as long as the decoded events carry only content deltas, the content
\* of the accumulator, empty at the start, is the concatenation of the deltas
\* in the order they were decoded, and the metadata is untouched.
C3_ContentAppendOnly ==
    (\A i \in DOMAIN s_delivered : ContentOnly(s_delivered[i]))
        => /\ s_msg.content = ConcatDeltas(s_delivered)
           /\ s_msg.meta = NewAssistantMsg.meta

\* C3 witness: two different content deltas were decoded and merged, the
\* second one holding a two-byte character.
C3_Witness ==
    /\ s_delivered = << HiChunk, AccentChunk >>
    /\ s_msg.content = "Hi@"

-----------------------------------------------------------------------------
(* Properties of the merge functions *)

\* A property that is present with a value (JSON null counts as no value).
Present(opt) == opt # Absent /\ opt[1] # "null"

\* C4 as claimed: after applyPerplexityChunk(acc, e) every side-channel
\* property present in e (at its top level, with a value other than null) has
\* replaced the accumulator's field, every one not present in e has left it
\* unchanged, and so has the content when e has no delta.
C4_AsClaimed ==
    m_kind = "chunk" =>
        /\ \A f \in SideFields :
              m_msg.meta[f] = IF Present(m_chunk[f]) THEN m_chunk[f][1]
                              ELSE m_before.meta[f]
        /\ m_chunk.delta_content = Absent => m_msg.content = m_before.content

\* The value applyPerplexityChunk takes for field f from event e: for
\* reasoning_steps a truthy delta.reasoning_steps, else the top-level property.
Carried(e, f) ==
    IF f = "reasoning_steps" /\ Truthy(e.delta_reasoning_steps)
    THEN e.delta_reasoning_steps
    ELSE e[f]

\* C4 amended: after applyPerplexityChunk(acc, e) every side-channel field
\* for which e carries a truthy value (for reasoning_steps: in the delta, else
\* at top level) equals exactly that value, replaced and not appended; every
\* other field, the async note, and the content when e has no non-empty delta,
\* are unchanged.
C4_ReplaceOnArrival ==
    m_kind = "chunk" =>
        /\ \A f \in SideFields :
              m_msg.meta[f] = IF Truthy(Carried(m_chunk, f)) THEN Carried(m_chunk, f)[1]
                              ELSE m_before.meta[f]
        /\ m_msg.meta.async = m_before.meta.async
        /\ ~ TruthyStr(m_chunk.delta_content) => m_msg.content = m_before.content

\* C4 witness: a second event with a different citation list was merged and
\* only the second list is retained.
C4_Witness ==
    /\ m_kind = "chunk"
    /\ m_n = 2
    /\ m_before.meta.citations = "[1]"
    /\ m_chunk.citations = << "[2]" >>
    /\ m_msg.meta.citations = "[2]"

\* The incremental event that carries the content of response `data` as its
\* delta and the same side-channel properties.
AsChunk(data) ==
    [delta_content |-> data.content, delta_reasoning_steps |-> Absent,
     citations |-> data.citations, search_results |-> data.search_results,
     usage |-> data.usage, reasoning_steps |-> data.reasoning_steps,
     images |-> data.images, videos |-> data.videos,
     related_questions |-> data.related_questions]

\* C5 as claimed: for every accumulator, applyPerplexityFinal leaves the
\* accumulator applyPerplexityChunk leaves for the corresponding event.
C5_AsClaimed ==
    m_kind = "final" => m_msg = applyPerplexityChunk(m_before, AsChunk(m_final))

\* C5 amended: for every accumulator whose content is empty,
\* applyPerplexityFinal leaves the accumulator applyPerplexityChunk leaves for
\* the corresponding event.
C5_FinalAsOneChunk ==
    (m_kind = "final" /\ m_before.content = "")
        => m_msg = applyPerplexityChunk(m_before, AsChunk(m_final))

\* C5 witness: a response with content and every side-channel property was
\* merged into an accumulator with empty content and metadata set by an
\* earlier merge.
C5_Witness ==
    /\ m_kind = "final"
    /\ m_final = FullFinal
    /\ m_before.content = ""
    /\ m_before.meta.citations = "[1]"
    /\ m_msg.content = "c"
    /\ m_msg.meta.citations = "[9]"

\* C6: merging the same response a second time with applyPerplexityFinal
\* leaves the accumulator as the first merge left it; merging the same event
\* with a non-empty content delta a second time with applyPerplexityChunk
\* appends the delta once more.
C6_FinalIdempotent ==
    /\ m_kind = "final_again" => m_msg = m_before
    /\ (m_kind = "chunk_again" /\ TruthyStr(m_chunk.delta_content))
          => /\ m_msg.content = m_before.content \o m_chunk.delta_content[1]
             /\ m_msg.content # m_before.content

\* C6 witness: the response with content and every side-channel property
\* was merged twice.
C6_Witness ==
    /\ m_kind = "final_again"
    /\ m_final = FullFinal
    /\ m_msg.content = "c"
    /\ m_msg.meta.usage = "{\"t\":7}"

-----------------------------------------------------------------------------
(* Properties of the exchanges *)

\* Exchange e ran the async path and ended in the completed branch.
AsyncCompleted(e) ==
    /\ e <= nEx
    /\ ex[e].mode = "async"
    /\ ex[e].pc = "done"
    /\ ex[e].outcome = "done"

\* The accumulator of the non-streaming path for response `data`.
NonStreaming(data) == applyPerplexityFinal(NewAssistantMsg, data)

\* C7 as claimed: when the async path ends with a completed job, the
\* accumulator (content and all of meta) is the one the non-streaming merge of
\* the job's response produces from a fresh accumulator.
C7_AsClaimed ==
    \A e \in Exchanges :
        AsyncCompleted(e) => messages[ex[e].idx] = NonStreaming(ex[e].merged[1])

\* C7 amended: when the async path ends with a completed job, the seven
\* side-channel fields are those of the non-streaming merge of the job's
\* response; the content is that of the non-streaming merge when the response
\* carries a content and the placeholder text otherwise; and meta.async, which
\* the non-streaming path never sets, holds the completed note.
C7_AsyncMatchesFinal ==
    \A e \in Exchanges :
        AsyncCompleted(e) =>
            LET msg == messages[ex[e].idx]
                data == ex[e].merged[1]
            IN  /\ \A f \in SideFields : msg.meta[f] = NonStreaming(data).meta[f]
                /\ msg.content = IF data.content # Absent
                                 THEN NonStreaming(data).content
                                 ELSE Placeholder
                /\ msg.meta.async = << CompletedNote(ex[e].id) >>

\* C7 witness: a job was submitted, two status fetches got a non-terminal
\* answer, the third one COMPLETED with the full response, which was merged.
C7_Witness ==
    \E e \in Exchanges :
        /\ AsyncCompleted(e)
        /\ ex[e].polls = 3
        /\ ex[e].merged = << FullFinal >>
        /\ messages[ex[e].idx].content = "c"

\* C8: once the token of an exchange is tripped, no step changes that
\* exchange's assistant message, and no step is a write of that exchange.
C8_CancelStopsMutation ==
    [][\A e \in Exchanges :
          (e <= nEx /\ aborted[e]) =>
              /\ messages'[ex[e].idx] = messages[ex[e].idx]
              /\ \A w \in wlog' \ wlog : w[1] # e]_vars

\* C8 witness: an async exchange was cancelled after its status fetch was
\* issued, and has ended as stopped with the message as the submission left it.
C8_Witness ==
    \E e \in Exchanges :
        /\ e <= nEx /\ aborted[e]
        /\ ex[e].mode = "async"
        /\ ex[e].polls >= 1
        /\ ex[e].outcome = "stopped"
        /\ messages[ex[e].idx].content = Placeholder
        /\ messages[ex[e].idx].meta.async = << CreatedNote(ex[e].id) >>

\* C9: in every reachable state at most one exchange in flight has a token
\* that is not invalidated.
C9_OneLiveToken ==
    Cardinality({e \in Exchanges : InFlight(e) /\ ~ aborted[e]}) <= 1

\* C10: every write lands on the message the writing exchange created.
C10_SingleWriter ==
    \A w \in wlog : created[w[2]] = w[1]

\* C10 witness: an aborted exchange and a newer one are in flight on the
\* thread at the same time and each has written to its message.
C10_Witness ==
    \E e1, e2 \in Exchanges :
        /\ e1 < e2
        /\ InFlight(e1) /\ InFlight(e2)
        /\ aborted[e1]
        /\ << e1, ex[e1].idx >> \in wlog
        /\ << e2, ex[e2].idx >> \in wlog

-----------------------------------------------------------------------------
(* Properties of the poll loop and of the error handling *)

\* The message of exchange e, now and after the step.
MsgOf(e) == messages[ex[e].idx]
MsgOfNext(e) == messages'[ex[e].idx]

\* The step ends exchange e.
Ends(e) == InFlight(e) /\ ex'[e].pc = "done"

\* The step leaves everything of message b but the async note as in a.
OnlyNoteDiffers(a, b) == b = [a EXCEPT !.meta.async = b.meta.async]

\* The text of the error a non-success status fetch raises.
PollErrorText == "Async poll error (" \o ErrorStatus \o "): " \o ErrorBody

\* C11: once a status fetch has returned a non-success HTTP status (the
\* poller is reading the error body), no further status fetch is issued for
\* the job: the exchange stays there or ends, and an ended exchange never
\* moves again; unless its token is invalidated meanwhile it ends in the error
\* state, with the error text (that of the poll error, or that of the failed
\* body read) appended to the content and nothing else of the message changed.
C11_PollFailureFatal ==
    [][\A e \in Exchanges :
          /\ (e <= nEx /\ ex[e].pc = "poll_text") =>
                /\ ex'[e].pc \in {"poll_text", "done"}
                /\ ex'[e].polls = ex[e].polls
                /\ (Ends(e) /\ ~ aborted[e]) =>
                      /\ ex'[e].outcome = "error"
                      /\ status' = << "error", "Error" >>
                      /\ \E text \in {PollErrorText, NetworkFailure} :
                            MsgOfNext(e) =
                              [MsgOf(e) EXCEPT !.content = @ \o ErrorNote(text)]
          /\ (e <= nEx /\ ex[e].pc = "done") => ex'[e] = ex[e]]_vars

\* C11 witness: the second status fetch of a job returned a non-success
\* status; the exchange has ended as an error after two fetches, with the poll
\* error appended to the placeholder.
C11_Witness ==
    \E e \in Exchanges :
        /\ e <= nEx /\ ex[e].pc = "done" /\ ex[e].outcome = "error"
        /\ ex[e].polls = 2
        /\ status = << "error", "Error" >>
        /\ MsgOf(e).content = Placeholder \o ErrorNote(PollErrorText)
        /\ MsgOf(e).meta.async = << StatusNote(<< "IN_PROGRESS" >>, ex[e].id) >>

\* The step takes a poll response of exchange e.
Takes(e) == e <= nEx /\ ex[e].pc = "poll_json" /\ ex'[e].data # Absent

\* The poll response taken.
Taken(e) == ex'[e].data[1]

\* The step takes a poll response of exchange e that reports FAILED.
TakesFailed(e) == Takes(e) /\ Taken(e).status = << "FAILED" >>

\* C12: a poll response reporting FAILED ends the exchange in the error state
\* without another status fetch; the upstream error_message, or the fixed
\* default text, is appended to the content the message had; the side-channel
\* fields are left as they were (no final merge).
C12_JobFailure ==
    [][\A e \in Exchanges :
          TakesFailed(e) =>
              /\ ex'[e].pc = "done" /\ ex'[e].outcome = "error"
              /\ ex'[e].polls = ex[e].polls
              /\ ex'[e].merged = Absent
              /\ status' = << "error", "Error" >>
              /\ MsgOfNext(e).content =
                    MsgOf(e).content \o ErrorNote(
                        IF Taken(e).error_message # Absent
                        THEN Taken(e).error_message[1]
                        ELSE "Deep research request failed")
              /\ \A f \in SideFields : MsgOfNext(e).meta[f] = MsgOf(e).meta[f]]_vars

\* C12 witness: the second poll of a job reported FAILED with the upstream
\* message "quota", which was appended to the placeholder.
C12_Witness ==
    \E e \in Exchanges :
        /\ e <= nEx /\ ex[e].pc = "done" /\ ex[e].outcome = "error"
        /\ ex[e].polls = 2
        /\ ex[e].data # Absent /\ ex[e].data[1].error_message = << "quota" >>
        /\ MsgOf(e).meta.async = << "Status: FAILED * id: j1" >>
        /\ MsgOf(e).content = Placeholder \o ErrorNote("quota")

\* A poll response that does not end the job: its status is not FAILED and
\* it is not a COMPLETED one that carries the result.
NonTerminal(data) ==
    /\ data.status # << "FAILED" >>
    /\ ~ (data.status = << "COMPLETED" >> /\ data.response # Absent)

\* The step takes a poll response of exchange e that is not terminal.
TakesNonTerminal(e) == Takes(e) /\ NonTerminal(Taken(e))

\* C13: a poll iteration whose response is not terminal changes nothing of
\* the message but the async note, and the exchange goes back to the top of
\* the loop, where it waits before the next status fetch.
C13_NonTerminalFrame ==
    [][\A e \in Exchanges :
          TakesNonTerminal(e) =>
              /\ OnlyNoteDiffers(MsgOf(e), MsgOfNext(e))
              /\ ex'[e] = [ex[e] EXCEPT !.pc = "sleep", !.data = ex'[e].data]
              /\ status' = status]_vars

\* C13 witness: a poll response without a status was taken after an
\* IN_PROGRESS one; the exchange waits for its next fetch, the content is
\* still the placeholder.
C13_Witness ==
    \E e \in Exchanges :
        /\ e <= nEx /\ ex[e].pc = "sleep" /\ ex[e].polls = 2
        /\ ex[e].data # Absent /\ ex[e].data[1].status = Absent
        /\ MsgOf(e).meta.async = << "Status: UNKNOWN * id: j1" >>
        /\ MsgOf(e).content = Placeholder

\* Exchange e is in the poll loop.
InLoop(e) ==
    e <= nEx /\ ex[e].pc \in {"sleep", "poll_fetch", "poll_text", "poll_json"}

\* The step ends exchange e with a transport error: a status fetch with a
\* non-success status, or a fetch or body read that failed.
TransportError(e) ==
    /\ ~ Takes(e)
    /\ ex'[e].outcome = "error"
    /\ \E text \in {PollErrorText, NetworkFailure} :
          MsgOfNext(e).content = MsgOf(e).content \o ErrorNote(text)

\* C14: the poll loop has no iteration limit.  Whatever the number of status
\* fetches already issued (below the bound of the model), an exchange waiting
\* at the top of the loop can issue the next one; a non-terminal response
\* sends it back there; and it leaves the loop only when its token was
\* invalidated, when the response taken is terminal, or on a transport error.
C14_UnboundedPolling ==
    /\ [](\A e \in Exchanges :
            (e <= nEx /\ ex[e].pc = "sleep" /\ ex[e].polls < MaxPolls /\ ~ Busy)
                => ENABLED SleepOver(e))
    /\ [][\A e \in Exchanges :
            /\ (e <= nEx /\ ex[e].pc = "sleep" /\ ex'[e] # ex[e]) =>
                  ex'[e] = [ex[e] EXCEPT !.pc = "poll_fetch",
                                         !.polls = ex[e].polls + 1,
                                         !.data = Absent]
            /\ TakesNonTerminal(e) => ex'[e].pc = "sleep"
            /\ (InLoop(e) /\ Ends(e)) =>
                  \/ aborted[e] /\ ex'[e].outcome = "stopped"
                  \/ Takes(e) /\ ~ NonTerminal(Taken(e))
                  \/ TransportError(e)]_vars

\* C14 witness: every status fetch but the last allowed one got a
\* non-terminal response, and the last one has been issued.
C14_Witness ==
    \E e \in Exchanges :
        /\ e <= nEx /\ ex[e].pc = "poll_fetch" /\ ~ aborted[e]
        /\ ex[e].polls = MaxPolls
        /\ MsgOf(e).meta.async = << "Status: IN_PROGRESS * id: j1" >>

\* The messages of the errors an exchange can raise.
ErrorTexts ==
    { NetworkFailure, PollErrorText,
      "Async submit error (" \o ErrorStatus \o "): " \o ErrorBody,
      "Perplexity API error (" \o ErrorStatus \o "): " \o ErrorBody,
      "quota", "Deep research request failed" }

\* C15: an exchange whose token is invalidated ends as stopped, with its
\* message exactly as it was; an exchange ends as an error only when its token
\* is not invalidated, and then the error text is appended to the content.
C15_CancelDistinguished ==
    [][\A e \in Exchanges :
          Ends(e) =>
              /\ aborted[e] =>
                    /\ ex'[e].outcome = "stopped"
                    /\ status' = << "idle", "Stopped" >>
                    /\ MsgOfNext(e) = MsgOf(e)
              /\ ex'[e].outcome = "stopped" => aborted[e]
              /\ ex'[e].outcome = "error" =>
                    /\ status' = << "error", "Error" >>
                    /\ \E text \in ErrorTexts :
                          MsgOfNext(e).content = MsgOf(e).content \o ErrorNote(text)]_vars

\* C15 witness: a streaming exchange was stopped after its first event was
\* merged; it has ended as stopped and the message holds what that event
\* brought and no error note.
C15_Witness ==
    \E e \in Exchanges :
        /\ e <= nEx /\ aborted[e] /\ ex[e].pc = "done"
        /\ ex[e].mode = "stream" /\ ex[e].outcome = "stopped"
        /\ status = << "idle", "Stopped" >>
        /\ MsgOf(e).meta.citations = "[\"u\"]"
        /\ MsgOf(e).content = ""

-----------------------------------------------------------------------------
(* Properties of the request payload *)

\* A payload has been built from the current settings and thread.
Built == payload # Absent

\* The keys of the payload built.
Keys == DOMAIN payload[1]

\* The settings that are null when not set.
NullableSettings == {"reasoning_effort", "language_preference", "search_recency_filter"}

\* The keys every payload has.
BaseKeys == {"model", "messages", "search_mode", "stream", "stream_mode", "safe_search"}

\* C16: the payload has no max_tokens key when max_tokens is null, no
\* reasoning_effort, language_preference or search_recency_filter key when
\* that setting is null, no key of a list filter whose list is empty, and no
\* web_search_options key when both of its settings are null.
C16_NullAndEmptyOmitted ==
    Built =>
        /\ settings.max_tokens = Absent => "max_tokens" \notin Keys
        /\ \A k \in NullableSettings : settings[k] = Absent => k \notin Keys
        /\ \A k \in ListFilters : settings[k] = << >> => k \notin Keys
        /\ (/\ settings.web_search_options.search_context_size = Absent
            /\ settings.web_search_options.search_type = Absent)
              => "web_search_options" \notin Keys

\* C16 witness: a payload built where max_tokens and the other nullable
\* settings are null and one list filter is empty (its input held a comma
\* only) while the three other list filters are set: the payload has the base
\* keys and those three.
C16_Witness ==
    /\ Built
    /\ settings.max_tokens = Absent
    /\ settings.image_domain_filter = << >>
    /\ settings.search_domain_filter = << "a.com", "b.com" >>
    /\ Keys = BaseKeys \cup {"search_domain_filter", "search_language_filter",
                             "image_format_filter"}

\* The flags of the settings and the payload key of each.
FlagKeys == {"stream", "safe_search", "return_images", "return_related_questions",
             "enable_search_classifier", "disable_search", "media_response"}

\* The value of the flag of the settings that payload key k stands for.
FlagOf(k) ==
    IF k = "media_response" THEN settings.media_response.overrides.return_videos
    ELSE settings[k]

\* The flags that are part of every payload.
AlwaysSent == {"stream", "safe_search"}

\* C17 as claimed: each of the seven flags is a key of the payload exactly
\* when its value is true.
C17_AsClaimed ==
    Built => \A k \in FlagKeys : k \in Keys <=> FlagOf(k)

\* C17 amended: stream and safe_search are keys of every payload, with the
\* value of the setting, false included; each of the other five flags is a
\* key exactly when its value is true, and then its value in the payload is
\* true.
C17_FlagsOmitted ==
    Built =>
        /\ \A k \in AlwaysSent : k \in Keys /\ payload[1][k] = FlagOf(k)
        /\ \A k \in FlagKeys \ AlwaysSent : k \in Keys <=> FlagOf(k)
        /\ \A k \in (FlagKeys \ AlwaysSent) \cap Keys :
              payload[1][k] = IF k = "media_response"
                              THEN [overrides |-> [return_videos |-> TRUE]]
                              ELSE TRUE

\* C17 witness: a payload built with stream and safe_search off and
\* return_images on: stream and safe_search are sent as false, return_images
\* as true, the flags that are off are not sent.
C17_Witness ==
    /\ Built
    /\ ~ settings.stream /\ ~ settings.safe_search /\ settings.return_images
    /\ payload[1].stream = FALSE /\ payload[1].safe_search = FALSE
    /\ payload[1].return_images = TRUE
    /\ Keys = BaseKeys \cup {"return_images"}

\* C18: a max_tokens in the payload lies in MinTokens..MaxTokens.
C18_Clamped ==
    (Built /\ "max_tokens" \in Keys) =>
        (MinTokens <= payload[1].max_tokens /\ payload[1].max_tokens <= MaxTokens)

\* The messages of the payload but the system message.
Conversation ==
    LET ms == payload[1].messages
    IN  IF ms # << >> /\ ms[1].role = "system" THEN Tail(ms) ELSE ms

\* C19: the last message of the payload an exchange sends is the user
\* message of that exchange.
C19_LastIsUserMessage ==
    Built =>
        /\ payload[1].messages # << >>
        /\ payload[1].messages[Len(payload[1].messages)] = b_user

\* What holds of the messages instead: after the system message, if any, they
\* are the messages of the thread in order; the last one is the empty
\* assistant message sendPrompt pushed, the user message is the one before.
C19_ThreadInOrder ==
    Built =>
        /\ Len(Conversation) = Len(b_thread)
        /\ \A i \in 1..Len(b_thread) :
              /\ Conversation[i].role = b_thread[i].role
              /\ Conversation[i].content = b_thread[i].content
        /\ Conversation[Len(Conversation)] = [role |-> "assistant", content |-> ""]
        /\ Conversation[Len(Conversation) - 1] = b_user

-----------------------------------------------------------------------------
(* Properties of the proxy *)

\* A header that is absent, or blank after trimming.
Blank(h) == h = Absent \/ Trim(h[1]) = ""

\* The request carries no credential: both headers are absent or blank, or
\* the x-pplx-key header is sent with white space only.
NoCredential(r) ==
    \/ Blank(r.key1) /\ Blank(r.key2)
    \/ Blank(r.key1) /\ r.key1 \notin {Absent, << "" >>}

Relaying ==
    /\ req # << >> /\ req[1].route \in {"chat", "submit"}
    /\ upstream # << >>

\* The caller was answered with the proxy's own error instead.
AnsweredProxyError == res.status = "500" /\ res.body = << ProxyError >>

\* The text the caller has received so far.
Received == Concat(res.body, 1, Len(res.body))

\* C21 as claimed: the answer to the caller has the upstream status, exactly
\* the allow-listed headers that are present upstream, and the upstream body.
C21_AsClaimed ==
    (Relaying /\ x_pc = "sent") =>
        /\ res.status = upstream[1].status
        /\ DOMAIN res.headers = AllowList \cap DOMAIN upstream[1].headers
        /\ \A h \in DOMAIN res.headers : res.headers[h] = upstream[1].headers[h]
        /\ Received = BodyText(upstream[1])

\* C21 amended: unless the caller is answered with the proxy's own 500 error
\* (setting up the pipe and the buffering both failed), the answer has the
\* upstream status and exactly the allow-listed headers that are present
\* upstream with a non-empty value, each with its upstream value; what the
\* caller has received is always a beginning of the upstream body, and the
\* whole of it once the response is ended.
C21_TransparentRelay ==
    (Relaying /\ ~ AnsweredProxyError) =>
        /\ res.status = upstream[1].status
        /\ DOMAIN res.headers \subseteq AllowList
        /\ \A h \in AllowList :
              h \in DOMAIN res.headers <=>
                  (h \in DOMAIN upstream[1].headers /\ upstream[1].headers[h] # "")
        /\ \A h \in DOMAIN res.headers : res.headers[h] = upstream[1].headers[h]
        /\ IsPrefix(Received, BodyText(upstream[1]))
        /\ res.ended => Received = BodyText(upstream[1])

\* C21 witness: an upstream 429 with a set-cookie header, a request id and an
\* empty rate-limit header was piped to the caller in two chunks: the answer
\* is a 429 with the content type and the request id only.
C21_Witness ==
    /\ Relaying /\ x_pc = "sent" /\ res.ended
    /\ upstream[1].status = "429" /\ res.status = "429"
    /\ "set-cookie" \in DOMAIN upstream[1].headers
    /\ DOMAIN res.headers = {"content-type", "x-request-id"}
    /\ res.body = << "data: a\n\n", "data: b\n\n" >>

\* The handling of the request has come to its end, by a response sent or by
\* the process stopping.
HandlingOver == x_pc \in {"sent", "crashed"}

\* C22: whenever the relay of an upstream response is over, however the
\* streaming went, the caller has received one complete response: the whole
\* upstream body, or the proxy's own error.
C22_RelayFallback ==
    (Relaying /\ HandlingOver) =>
        /\ res.ended
        /\ Received = BodyText(upstream[1]) \/ AnsweredProxyError

-----------------------------------------------------------------------------
(* More properties of the decoder *)

\* The first and the last byte of the line that is not JSON in raw event 6,
\* which has a data line that is JSON before it and one after it.
MalformedFrom == Len("data:{\"usage\":{\"t\":1}}\n") + 1
MalformedTo == MalformedFrom + Len("data: {\"choices\":") - 1

\* C23: a data line that is not JSON, a line that is not a data line and a
\* data line without a payload deliver nothing and end nothing: once the body
\* is consumed, the objects handed to onChunk are those of the well-formed
\* data lines before the sentinel, in stream order; and while no sentinel was
\* met the call goes on reading.
C23_MalformedSkipped ==
    /\ SSEFinished => s_delivered = Expected(s_script)
    /\ s_pc = "returned" => HasSentinel(s_script)

\* C23 witness: a body whose first raw event has a malformed data line
\* between two well-formed ones, cut inside the malformed line, has been
\* consumed to its end: both neighbours and the event of the next raw event
\* were delivered.
C23_Witness ==
    /\ s_script = << 6, 1 >>
    /\ Len(s_cuts) = 2
    /\ s_cuts[1] > MalformedFrom /\ s_cuts[1] < MalformedTo
    /\ s_pc = "ended"
    /\ s_delivered = << UsageChunk, CitationsChunk, HiChunk >>

\* The raw events of the script but the last one.
AllButLast(script) == SubSeq(script, 1, Len(script) - 1)

\* The text of the body after its last blank line.
Residue == SubSeq(s_stream, Len(BodyOf(AllButLast(s_script))) + 1, Len(s_stream))

\* C26: when a body without a sentinel ends with a raw event that no blank
\* line follows, the objects handed to onChunk are never more than those of
\* the raw events before it, and exactly those once the stream has ended; the
\* text of the last raw event is still in the buffer then, undelivered.
C26_ResidueDiscarded ==
    /\ IsPrefix(s_delivered, Expected(AllButLast(s_script)))
    /\ s_pc # "returned"
    /\ s_pc = "ended" =>
          /\ s_delivered = Expected(AllButLast(s_script))
          /\ s_buffer = Residue

\* C26 witness: a body of a citations event and a content event, the second
\* one followed by one newline only, was read in two chunks to its end: the
\* citations were delivered, the content event is left in the buffer.
C26_Witness ==
    /\ s_script = << 3, 1 >>
    /\ s_stream = BodyOf(<< 3 >>) \o RawEvents[1].bytes \o "\n"
    /\ Len(s_cuts) = 2
    /\ s_pc = "ended"
    /\ s_delivered = << CitationsChunk >>
    /\ s_buffer = RawEvents[1].bytes \o "\n"

-----------------------------------------------------------------------------
(* More properties of the cancellation slot *)

\* C25: in every reachable state the slot holds the token of every exchange
\* that is in flight and has not been cancelled, so that a Stop click reaches
\* it.
C25_StopReachesRunning ==
    \A e \in Exchanges : (InFlight(e) /\ ~ aborted[e]) => abortController = e

-----------------------------------------------------------------------------
(* The poll loop of a job that completes *)

\* The replies that report COMPLETED with a result attached.
CompletedReplies ==
    { data \in PollReplies : data.status = << "COMPLETED" >> /\ data.response # Absent }

\* The replies of a job that runs: it is in progress, or reports COMPLETED
\* before its result is attached.
RunningReplies ==
    { data \in PollReplies : NonTerminal(data) /\ data.status # Absent }

\* The bodies the status endpoint answers exchange e with while its job runs
\* to completion: a reply of a running job, or the result; the result at the
\* latest when the last status fetch of the model is answered.
JobReplies(e) ==
    IF ex[e].polls < MaxPolls
    THEN RunningReplies \cup LeanPollReplies
    ELSE LeanPollReplies

\* Exchange e is resumed: a promise it awaits is settled or its sleep is
\* over. Every status fetch is answered with a success status.
Resumes(e) ==
    \/ Rejected(e)
    \/ SubmitOk(e)
    \/ SubmitNotOk(e)
    \/ SubmitText(e)
    \/ SubmitJson(e)
    \/ SleepOver(e)
    \/ PollOk(e)
    \/ PollJson(e, JobReplies(e))

\* The number of deep-research exchanges whose jobs complete.
MaxJobs == 2
Jobs == 1..MaxJobs

\* Deep-research exchanges whose jobs complete; the user may click Stop.
NextLive ==
    \/ Send(MaxJobs, {"async"})
    \/ Stop
    \/ \E e \in Jobs : Resumes(e)

\* The event loop runs the continuation of every settled promise and of every
\* timer that has fired; the server answers every request.
Fairness == \A e \in Jobs : WF_vars(Resumes(e))

SpecLive == Init /\ [][NextLive]_vars /\ Fairness

\* The submission of exchange e has succeeded: the job id is known and the
\* poll loop runs.
Submitted(e) == InFlight(e) /\ ex[e].id # ""

\* Exchange e has ended in the done state on a COMPLETED reply whose result it
\* has merged, and the slot is cleared.
CompletedDone(e) ==
    /\ e <= nEx /\ ex[e].pc = "done" /\ ex[e].outcome = "done"
    /\ ex[e].data # Absent /\ ex[e].data[1] \in CompletedReplies
    /\ ex[e].merged = ex[e].data[1].response
    /\ MsgOf(e).meta.async = << CompletedNote(ex[e].id) >>
    /\ abortController = 0

\* The exchange has ended: it issues no request and writes nothing.
Settled(e) ==
    (e <= nEx /\ ex[e].pc = "done") =>
        /\ ex'[e] = ex[e]
        /\ MsgOfNext(e) = MsgOf(e)

\* C24: when the submission has succeeded, every status fetch is answered with
\* a success status and the job reports COMPLETED with a result in the end,
\* the exchange, unless its token is tripped, eventually is in the done state
\* with that result merged and the slot cleared; once it has ended it issues
\* no status fetch and merges nothing again.
C24_CompletionLiveness ==
    /\ \A e \in Jobs :
          (Submitted(e) /\ ~ aborted[e]) ~> (aborted[e] \/ CompletedDone(e))
    /\ [][\A e \in Exchanges : Settled(e)]_vars

\* C24 witness: the job of an exchange that was never cancelled answered two
\* status fetches with replies that are not terminal and the last one with its
\* result: the exchange is done, the result is merged, the slot is cleared.
C24_Witness ==
    /\ nEx = 1 /\ ~ aborted[1]
    /\ ex[1].polls = MaxPolls /\ MaxPolls > 1
    /\ CompletedDone(1)
    /\ ex[1].merged = << FullFinal >>
    /\ status = << "idle", "Done" >>
    /\ ~ stopBtn

====
